---- MODULE Spec2Model ----
(***************************************************************************)
(* Model of @bedrock/service-agent: the rotating caches of ephemeral       *)
(* agents (serviceAgents.js) and document stores (documentStores.js) and   *)
(* the optimistic-concurrency DocumentStore (DocumentStore.js).            *)
(*                                                                         *)
(* Time is discrete.  One step of the event loop (a macrotask: an incoming *)
(* call, a timer, a network response) is followed by the continuations it  *)
(* makes runnable (microtasks) before the next macrotask or clock tick.    *)
(***************************************************************************)
EXTENDS Integers, Sequences, FiniteSets, TLC

\* ------------------------------------------------------------------------
\* Bounds
MaxTime == 5
MaxProm == 4
NumCalls == 2

\* Program constants, scaled: one tick is two and a half minutes
FIVE_MINUTES == 2
TEN_MINUTES == FIVE_MINUTES * 2

\* a time later than every time of the model
Never == MaxTime + TEN_MINUTES + 1

Names == {"edv", "hmac"}
\* the zcaps of the configuration expire soon (edv only) or late
Configs == {[edv |-> 3, hmac |-> Never], [edv |-> Never, hmac |-> Never]}
Modes == {"agent", "store"}

Calls == 1..NumCalls
Proms == 1..MaxProm

Min2(a, b) == IF a < b THEN a ELSE b
MinOf(S) == CHOOSE x \in S : \A y \in S : x <= y

VARIABLES
  now,          \* Date.now()
  mode,         \* which rotating cache the run is about
  zcapExpires,  \* config.zcaps[name].expires
  ttl,          \* EPHEMERAL_AGENT_CACHE_TTL / DOCUMENT_STORE_CACHE.cache.maxAge
  cache,        \* the slot of the key in EPHEMERAL_AGENT_CACHE / DOCUMENT_STORE_CACHE
  prom,         \* the promises returned by the producer, and their records
  rot,          \* the rotation closure of every record
  call,         \* the calls of getEphemeralAgent / documentStores.get
  lost,         \* history: promises whose entry left the cache before they settled
  docs,         \* the EDV: the stored documents of one content id, by storage id
  docCache,     \* DocumentStore.cache: the cached document of the content id
  wr,           \* the calls of DocumentStore.upsert / DocumentStore.delete
  ops,          \* the number of calls made
  gt,           \* the calls of DocumentStore.get({id, useCache: true})
  fnd,          \* the promises of _getUncachedDoc the cache was given
  config,       \* refreshZcaps: the configuration passed in
  dateNow,      \* refreshZcaps: `now`, the value of Date.now()
  cycle,        \* refreshZcaps: how far the call has come
  policy,       \* refreshZcaps: the refresh policy read
  zcaps,        \* refreshZcaps: the map of the zcaps of the configuration
  after,        \* refreshZcaps: the earliest time of the next refresh
  task,         \* refreshZcaps: the tasks added to the queue
  results,      \* refreshZcaps: what the tasks returned
  outcome,      \* refreshZcaps: what the call returned
  policyReads,  \* history: the number of reads of the refresh policy
  writes,       \* history: the zcaps sent to the refresh endpoint
  responses,    \* history: what the refresh endpoint answered
  signal,       \* refreshZcaps: when the abort signal fired, if it did
  collection,   \* the service agent records of one service type in the database
  SERVICE_AGENT_CACHE,  \* of every process: the cached record of the type
  init,         \* the call of initializeServiceAgent of every process
  nextAgent,    \* the next service agent generate() creates
  inits,        \* the number of calls of initializeServiceAgent made
  returned,     \* history: the service agents the calls returned
  EPHEMERAL_AGENT_CACHE,  \* the entries of all keys: key and record
  records,      \* the records _getUncachedEphemeralAgent created
  sequences,    \* the stored sequence of every config and service agent
  got,          \* history: the calls of getEphemeralAgent and their records
  updates,      \* the number of updates of configs and service agents
  queue,        \* the PQueue of refreshZcaps: its size and its counters
  adds,         \* the zcaps whose task has not been added to the queue
  aborted,      \* whether the signal given to queue.add has aborted
  running,      \* history: the task functions in execution
  started,      \* history: the jobs started in the current interval
  agentRecord,  \* the record of one service agent id in the database
  req,          \* the call of insert or update of every process
  requests,     \* the number of calls of insert and update made
  applied       \* history: the updates applied, by their sequence

cacheVars == <<now, mode, zcapExpires, ttl, cache, prom, rot, call, lost>>
storeVars == <<docs, docCache, wr, ops>>
getVars == <<gt, fnd>>
agentVars == <<collection, SERVICE_AGENT_CACHE, init, nextAgent, inits, returned>>
keyVars == <<EPHEMERAL_AGENT_CACHE, records, sequences, got, updates>>
queueVars == <<queue, adds, aborted, running, started>>
recordVars == <<agentRecord, req, requests, applied>>
refreshVars == <<config, dateNow, cycle, policy, zcaps, after, task, results,
                 outcome, policyReads, writes, responses, signal>>

Empty == [p |-> 0, start |-> 0]

NoProm == [st |-> "unused", kind |-> "none", maxExpires |-> 0, expires |-> 0,
           zcaps |-> [n \in Names |-> 0], err |-> "none", by |-> 0,
           agentExpires |-> 0]
NoRot == [pc |-> "none", at |-> 0, current |-> 0, q |-> 0, touched |-> FALSE]
NoCall == [pc |-> "idle", p |-> 0, owner |-> FALSE, res |-> 0, err |-> "none",
           retried |-> FALSE, saw |-> {}]

Settled(p) == prom[p].st \in {"resolved", "rejected"}
Pending(p) == prom[p].st = "pending"
Used == {p \in Proms : prom[p].st # "unused"}
NextProm == Cardinality(Used) + 1

\* the continuation of call c is waiting in the microtask queue
Ready(c) == call[c].pc \in {"memo", "rec"} /\ Settled(call[c].p)
\* continuations run in the order of their calls
Turn(c) == Ready(c) /\ \A d \in Calls : (d < c) => ~Ready(d)

\* a continuation is waiting in the microtask queue
Runnable ==
  \/ \E c \in Calls : call[c].pc \in {"memo", "rec"} /\ Settled(call[c].p)
  \/ \E r \in Proms : rot[r].pc = "fired" /\ Settled(rot[r].current)
  \/ \E r \in Proms : rot[r].pc = "producing" /\ Settled(rot[r].q)

\* ------------------------------------------------------------------------
\* lru-cache: get(key) with maxAge and updateAgeOnGet
StaleS(s) == s.p # 0 /\ now - s.start > ttl
GetRes_stale(s) == s.p
GetRes(s) == IF s.p = 0 \/ StaleS(s) THEN 0 ELSE s.p
GetSlot(s) == IF GetRes(s) = 0 THEN Empty ELSE [p |-> s.p, start |-> now]
SetSlot(q) == [p |-> q, start |-> now]

\* history of the entries that left the cache while their promise was pending
Lost(newCache) ==
  lost \cup (IF cache.p # 0 /\ newCache.p # cache.p /\ Pending(cache.p)
             THEN {cache.p} ELSE {})

\* ------------------------------------------------------------------------
\* LruCache.memoize, miss: promise = fn(); cache.set(key, promise)
StoreOnMiss_unstored(q) == Empty
StoreOnMiss(q) == SetSlot(q)

NewProm(kind, c) ==
  [NoProm EXCEPT !.st = "pending", !.kind = kind, !.by = c,
                 !.maxExpires = now + TEN_MINUTES]

\* history: a get found the promise of record p in the slot after the record
\* was created
Touch(p) ==
  IF p # 0 /\ rot[p].pc = "scheduled"
  THEN [rot EXCEPT ![p] = [@ EXCEPT !.touched = TRUE]] ELSE rot

\* the synchronous part of memoize for call c on slot value s
Memoize(c, s) ==
  LET saw == {p \in Proms : Pending(p) /\ prom[p].kind = "get"} IN
  IF GetRes(s) # 0
  THEN /\ cache' = GetSlot(s)
       /\ lost' = Lost(GetSlot(s))
       /\ prom' = prom
       /\ rot' = Touch(GetRes(s))
       /\ call' = [call EXCEPT ![c] = [@ EXCEPT
            !.pc = "memo", !.p = GetRes(s), !.owner = FALSE,
            !.retried = call[c].pc = "rec",
            !.saw = IF call[c].pc = "idle" THEN saw ELSE @]]
  ELSE /\ NextProm <= MaxProm
       /\ cache' = StoreOnMiss(NextProm)
       /\ lost' = Lost(StoreOnMiss(NextProm))
       /\ prom' = [prom EXCEPT ![NextProm] = NewProm("get", c)]
       /\ rot' = rot
       /\ call' = [call EXCEPT ![c] = [@ EXCEPT
            !.pc = "memo", !.p = NextProm, !.owner = TRUE,
            !.retried = call[c].pc = "rec",
            !.saw = IF call[c].pc = "idle" THEN saw ELSE @]]

\* getEphemeralAgent / documentStores.get is called
Get(c) ==
  /\ ~Runnable
  /\ call[c].pc = "idle"
  /\ \A d \in Calls : (d < c) => call[d].pc # "idle"
  /\ Memoize(c, cache)
  /\ UNCHANGED <<now, mode, zcapExpires, ttl>>
  /\ UNCHANGED <<storeVars, refreshVars, getVars, agentVars,
                 keyVars, queueVars, recordVars>>

\* the expiry test of getEphemeralAgent
IsExpired_never(p) == FALSE
IsExpired(p) == prom[p].expires < now

\* `await memoize(...)` continues
MemoizeSettled(c) ==
  LET p == call[c].p IN
  /\ call[c].pc = "memo"
  /\ Turn(c)
  /\ UNCHANGED <<now, mode, zcapExpires, ttl, prom>>
  /\ UNCHANGED <<storeVars, refreshVars, getVars, agentVars,
                 keyVars, queueVars, recordVars>>
  /\ IF prom[p].st = "rejected"
     THEN \* memoize removes the rejected promise; the caller sees the error
          /\ \E del \in BOOLEAN :
               /\ del => call[c].owner
               /\ (call[c].owner /\ cache.p = p) => del
               /\ cache' = IF del THEN Empty ELSE cache
               /\ lost' = Lost(IF del THEN Empty ELSE cache)
          /\ call' = [call EXCEPT ![c] = [@ EXCEPT
               !.pc = "failed", !.err = prom[p].err]]
          /\ rot' = rot
     ELSE IF mode = "store"
     THEN \* documentStores.get: return record.documentStore
          /\ call' = [call EXCEPT ![c] = [@ EXCEPT
               !.pc = "done", !.res = p]]
          /\ UNCHANGED <<cache, lost, rot>>
     ELSE \* getEphemeralAgent: promise = cache.get(key); record = await promise
          /\ rot' = Touch(GetRes(cache))
          /\ cache' = GetSlot(cache)
          /\ lost' = Lost(GetSlot(cache))
          /\ call' = [call EXCEPT ![c] =
               IF GetRes(cache) = 0
               THEN [@ EXCEPT !.pc = "failed", !.err = "TypeError"]
               ELSE [@ EXCEPT !.pc = "rec", !.p = GetRes(cache)]]

\* `record = await promise` continues
RecordSettled(c) ==
  LET p == call[c].p IN
  /\ call[c].pc = "rec"
  /\ Turn(c)
  /\ UNCHANGED <<now, mode, zcapExpires, ttl>>
  /\ UNCHANGED <<storeVars, refreshVars, getVars, agentVars,
                 keyVars, queueVars, recordVars>>
  /\ IF prom[p].st = "rejected"
     THEN /\ call' = [call EXCEPT ![c] = [@ EXCEPT
               !.pc = "failed", !.err = prom[p].err]]
          /\ UNCHANGED <<cache, prom, lost, rot>>
     ELSE IF IsExpired(p)
     THEN \* clear the expired record (if it has not changed) and retry
          Memoize(c, IF GetRes(cache) = p THEN Empty ELSE GetSlot(cache))
     ELSE /\ call' = [call EXCEPT ![c] = [@ EXCEPT
               !.pc = "done", !.res = p]]
          /\ UNCHANGED <<cache, prom, lost, rot>>

\* ------------------------------------------------------------------------
\* helpers.delegate: the delegated zcap expires at min(zcap.expires, maxExpires)
delegate(capExpires, maxExpires) == Min2(capExpires, maxExpires)

DelegatedZcaps(p) ==
  [n \in Names |-> delegate(zcapExpires[n], prom[p].maxExpires)]

\* the earliest expiration date of any of the delegated zcaps
earliestExpires_max(p) == prom[p].maxExpires
earliestExpires(p) ==
  MinOf({prom[p].maxExpires} \cup {DelegatedZcaps(p)[n] : n \in Names})

\* _getUncachedDocumentStore: the `expires` of the ephemeral agent that
\* getEphemeralAgent returned, which returns a record until its `expires`
\* has passed: a cached agent at the end of its life, or a new one
AgentExpires == {now, now + TEN_MINUTES}

\* whether a rotation is scheduled for a record created now
SchedulesRotation_strict(expires) == expires > now + ttl
SchedulesRotation(expires) == ~(expires < now + ttl)

\* _getUncachedEphemeralAgent / _getUncachedDocumentStore completes;
\* failed: the zcaps whose delegation failed
ProducerSettle(p, failed) ==
  /\ ~Runnable
  /\ Pending(p)
  /\ UNCHANGED <<now, mode, zcapExpires, ttl, cache, call>>
  /\ UNCHANGED <<storeVars, refreshVars, getVars, agentVars,
                 keyVars, queueVars, recordVars>>
  /\ lost' = lost \cup (IF cache.p = p /\ ~StaleS(cache) THEN {} ELSE {p})
  /\ IF failed # {}
     THEN /\ prom' = [prom EXCEPT ![p] = [@ EXCEPT
               !.st = "rejected", !.err = "DelegationError"]]
          /\ rot' = rot
     ELSE IF mode = "store"
     THEN /\ \E e \in AgentExpires :
               prom' = [prom EXCEPT ![p] = [@ EXCEPT
                 !.st = "resolved", !.expires = Never, !.agentExpires = e]]
          /\ rot' = [rot EXCEPT ![p] = [@ EXCEPT
               !.pc = "scheduled", !.at = now + ttl]]
     ELSE IF earliestExpires(p) < now
     THEN /\ prom' = [prom EXCEPT ![p] = [@ EXCEPT
               !.st = "rejected", !.err = "InvalidStateError"]]
          /\ rot' = rot
     ELSE /\ prom' = [prom EXCEPT ![p] = [@ EXCEPT
               !.st = "resolved", !.expires = earliestExpires(p),
               !.zcaps = DelegatedZcaps(p)]]
          /\ rot' = IF SchedulesRotation(earliestExpires(p))
                    THEN [rot EXCEPT ![p] = [@ EXCEPT
                           !.pc = "scheduled", !.at = now + ttl]]
                    ELSE rot

\* ------------------------------------------------------------------------
\* the rotation timer of record r fires
TimerFire(r) ==
  /\ ~Runnable
  /\ rot[r].pc = "scheduled"
  /\ now >= rot[r].at
  /\ cache' = GetSlot(cache)
  /\ lost' = Lost(GetSlot(cache))
  /\ rot' = [rot EXCEPT ![r] =
       IF GetRes(cache) = 0
       THEN [@ EXCEPT !.pc = "done"]
       ELSE [@ EXCEPT !.pc = "fired", !.current = GetRes(cache)]]
  /\ UNCHANGED <<now, mode, zcapExpires, ttl, prom, call>>
  /\ UNCHANGED <<storeVars, refreshVars, getVars, agentVars,
                 keyVars, queueVars, recordVars>>

\* only start the rotation if the same record is still present in the cache
SameRecord_any(r) == TRUE
SameRecord(r) == rot[r].current = r /\ GetRes(cache) = rot[r].current

\* current.then(currentRecord => ...) runs
RotationCheck(r) ==
  /\ rot[r].pc = "fired"
  /\ Settled(rot[r].current)
  /\ UNCHANGED <<now, mode, zcapExpires, ttl, call>>
  /\ UNCHANGED <<storeVars, refreshVars, getVars, agentVars,
                 keyVars, queueVars, recordVars>>
  /\ IF prom[rot[r].current].st = "rejected"
     THEN /\ rot' = [rot EXCEPT ![r] = [@ EXCEPT !.pc = "done"]]
          /\ UNCHANGED <<cache, prom, lost>>
     ELSE \* the second cache.get runs only if currentRecord === record
          LET new == IF rot[r].current = r THEN GetSlot(cache) ELSE cache IN
          /\ cache' = new
          /\ lost' = Lost(new)
          /\ IF SameRecord(r)
             THEN /\ NextProm <= MaxProm
                  /\ prom' = [prom EXCEPT ![NextProm] = NewProm("rot", 0)]
                  /\ rot' = [rot EXCEPT ![r] = [@ EXCEPT
                       !.pc = "producing", !.q = NextProm]]
             ELSE /\ prom' = prom
                  /\ rot' = [rot EXCEPT ![r] = [@ EXCEPT !.pc = "done"]]

\* the replacement is swapped in only if the slot still holds `current`
StillCurrent_any(r) == GetRes(cache) # 0
StillCurrent(r) == GetRes(cache) = rot[r].current

\* promise.then(() => {...}).catch(() => {}) runs
RotationSettled(r) ==
  /\ rot[r].pc = "producing"
  /\ Settled(rot[r].q)
  /\ rot' = [rot EXCEPT ![r] = [@ EXCEPT !.pc = "done"]]
  /\ UNCHANGED <<now, mode, zcapExpires, ttl, prom, call>>
  /\ UNCHANGED <<storeVars, refreshVars, getVars, agentVars,
                 keyVars, queueVars, recordVars>>
  /\ IF prom[rot[r].q].st = "rejected"
     THEN UNCHANGED <<cache, lost>>
     ELSE LET new == IF StillCurrent(r) THEN SetSlot(rot[r].q)
                     ELSE GetSlot(cache) IN
          /\ cache' = new
          /\ lost' = Lost(new)

\* ------------------------------------------------------------------------
\* record.next: null when no rotation was scheduled, else the promise the
\* timer callback resolves
NoNext == [st |-> "null", to |-> "none", p |-> 0]
PendingNext == [st |-> "pending", to |-> "none", p |-> 0]
NullNext == [st |-> "resolved", to |-> "null", p |-> 0]
RecordNext(q) == [st |-> "resolved", to |-> "record", p |-> q]

\* serviceAgents.js: resolve(promise.catch(e => e));
\* documentStores.js: resolve(promise)
Caught == mode = "agent"
Follow(q) ==
  IF prom[q].st = "pending" THEN PendingNext
  ELSE IF prom[q].st = "resolved" THEN RecordNext(q)
  ELSE IF Caught THEN [st |-> "resolved", to |-> "error", p |-> q]
  ELSE [st |-> "rejected", to |-> "error", p |-> q]

next(r) ==
  IF rot[r].pc = "none" THEN NoNext
  ELSE IF rot[r].pc \in {"scheduled", "fired"} THEN PendingNext
  ELSE IF rot[r].q = 0 THEN NullNext
  ELSE Follow(rot[r].q)

\* ------------------------------------------------------------------------
\* the environment of the key

\* the entry is the least recently used one when another key is stored
Evict ==
  /\ ~Runnable
  /\ cache.p # 0
  /\ cache' = Empty
  /\ lost' = Lost(Empty)
  /\ UNCHANGED <<now, mode, zcapExpires, ttl, prom, rot, call>>
  /\ UNCHANGED <<storeVars, refreshVars, getVars, agentVars,
                 keyVars, queueVars, recordVars>>

TtlChoices == {FIVE_MINUTES}

\* _resetEphemeralAgentCache({ttl}) / _resetDocumentStoreCache({ttl})
Reset(t) ==
  /\ ~Runnable
  /\ cache.p # 0 \/ t # ttl
  /\ ttl' = t
  /\ cache' = Empty
  /\ lost' = Lost(Empty)
  /\ UNCHANGED <<now, mode, zcapExpires, prom, rot, call>>
  /\ UNCHANGED <<storeVars, refreshVars, getVars, agentVars,
                 keyVars, queueVars, recordVars>>

\* a timer fires no later than one tick after it is due
TimerOverdue == \E r \in Proms : rot[r].pc = "scheduled" /\ rot[r].at < now

Tick ==
  /\ ~Runnable
  /\ ~TimerOverdue
  /\ now < MaxTime
  /\ now' = now + 1
  /\ UNCHANGED <<mode, zcapExpires, ttl, cache, prom, rot, call, lost>>
  /\ UNCHANGED <<storeVars, refreshVars, getVars, agentVars,
                 keyVars, queueVars, recordVars>>

\* ------------------------------------------------------------------------
\* DocumentStore: documents of one content id in an EDV
NumWriters == 2
MaxOps == 3

\* no more ids and sequences are needed than calls are made
MaxIds == MaxOps
MaxSequence == MaxOps - 1

Writers == 1..NumWriters
Ids == 1..MaxIds

\* a document or content without a `sequence`
NoSeq == -2

\* the errors a mutator of a caller raises to refuse an existing document
AbortNames == {"DuplicateError", "NotFoundError"}

\* the calls: upsert without a mutator; upsert with a mutator that refuses
\* any existing document; upsert with a mutator that expects a sequence;
\* delete by content id
Put == [kind |-> "put", sequence |-> NoSeq, name |-> "none", docId |-> 0]
Delete == [kind |-> "delete", sequence |-> NoSeq, name |-> "none", docId |-> 0]
Ops ==
  {Put, Delete}
  \cup {[kind |-> "create", sequence |-> 0, name |-> n, docId |-> 0] :
          n \in AbortNames}
  \cup {[kind |-> "update", sequence |-> s, name |-> "InvalidStateError",
         docId |-> 0] : s \in 1..MaxSequence}
\* delete by the id of the EDV document, here the first id generated
DeleteDoc == [kind |-> "deleteDoc", sequence |-> NoSeq, name |-> "none",
              docId |-> MinOf(Ids)]

NoDoc == [st |-> "none", sequence |-> NoSeq, cseq |-> NoSeq, by |-> 0]
NoLocal == [id |-> 0, sequence |-> NoSeq, cseq |-> NoSeq, by |-> 0]
NoWriter == [pc |-> "idle", op |-> Put,
             doc |-> NoLocal, isNew |-> FALSE, err |-> "none",
             aborted |-> FALSE, hit |-> FALSE, hasId |-> FALSE,
             deleted |-> FALSE]
\* no entry of the content id in DocumentStore.cache
Nothing == 0

\* edvClient.find({equals: {'content.id': id}}): the documents found
Found == {i \in Ids : docs[i].st = "live"}
TheDoc == CHOOSE i \in Found : TRUE

\* the ids of the documents that running calls are about to create
Generated ==
  {wr[v].doc.id : v \in {u \in Writers : wr[u].pc = "write" /\ wr[u].isNew}}

\* edvClient.generateId(): an id that no document has, stored or about to
\* be created; the ids are random, so one that was generated for a write
\* that failed is as good as one never generated
nextId == MinOf({i \in Ids : docs[i].st = "none" /\ i \notin Generated})

\* a call of writer w is running
Busy(w) == wr[w].pc \notin {"idle", "done", "failed"}

\* DocumentStore.upsert / DocumentStore.delete is called; the call is the
\* one of the first writer that is free
Start(w, op) ==
  /\ ~Busy(w)
  /\ \A v \in Writers : (v < w) => Busy(v)
  /\ ops < MaxOps
  /\ ops' = ops + 1
  /\ wr' = [wr EXCEPT ![w] = [NoWriter EXCEPT
       !.op = op, !.hasId = op.kind # "deleteDoc",
       !.pc = IF op.kind = "delete" THEN "find"
              ELSE IF op.kind = "deleteDoc" THEN "fetch" ELSE "read"]]
  /\ UNCHANGED <<docs, docCache>>
  /\ UNCHANGED <<cacheVars, refreshVars, getVars, agentVars,
                 keyVars, queueVars, recordVars>>

\* the mutator of an update: the document must be at the expected sequence
updateMutator(op, i) ==
  IF docs[i].cseq = op.sequence - 1 THEN "none" ELSE op.name

\* the mutator of a create: an existing document is refused
createMutator(op, i) == op.name

\* the error the mutator of the call raises for document i, if any
Mutator(op, i) ==
  IF op.kind = "update" THEN updateMutator(op, i) ELSE createMutator(op, i)

\* if(mutator) { doc = await mutator({doc, content, meta}) }
UsesMutator_never(op) == FALSE
UsesMutator(op) == op.kind \in {"create", "update"}

\* the error of the read and mutate part of an iteration of the loop, if any
ReadError(op) ==
  IF Found = {} THEN "NotFoundError"
  ELSE IF UsesMutator(op) THEN Mutator(op, TheDoc)
  ELSE "none"

\* catch(e) { if(e.name !== 'NotFoundError') throw e; isNew = true; ... }
IsNotFound_never(name) == FALSE
IsNotFound(name) == name = "NotFoundError"

\* upsert: doc = await this.get(...), the mutator, and the catch
UpsertRead(w) ==
  LET op == wr[w].op
      e == ReadError(op)
      raised == Found # {} /\ e # "none"
  IN
  /\ wr[w].pc = "read"
  /\ UNCHANGED <<docs, docCache, ops>>
  /\ UNCHANGED <<cacheVars, refreshVars, getVars, agentVars,
                 keyVars, queueVars, recordVars>>
  /\ IF e = "none"
     THEN /\ wr' = [wr EXCEPT ![w] = [@ EXCEPT
               !.pc = "write", !.isNew = FALSE,
               !.doc = [id |-> TheDoc, sequence |-> docs[TheDoc].sequence,
                        cseq |-> op.sequence, by |-> docs[TheDoc].by]]]
     ELSE IF IsNotFound(e)
     THEN /\ wr' = [wr EXCEPT ![w] = [@ EXCEPT
               !.pc = "write", !.isNew = TRUE,
               !.doc = [id |-> nextId, sequence |-> NoSeq,
                        cseq |-> op.sequence, by |-> 0],
               !.aborted = @ \/ raised]]
     ELSE /\ wr' = [wr EXCEPT ![w] = [@ EXCEPT
               !.pc = "failed", !.err = e, !.aborted = TRUE,
               !.doc = NoLocal]]

\* edvClient.update({doc}): the sequence that is sent, and the conditional
\* write of the server
SentSequence(d) == IF d.sequence = NoSeq THEN 0 ELSE d.sequence + 1

UpdateError_none(d) == "none"
UpdateError(d) ==
  IF SentSequence(d) = 0
  THEN IF Found # {} \/ docs[d.id].st # "none"
       THEN "DuplicateError" ELSE "none"
  ELSE IF docs[d.id].sequence = SentSequence(d) - 1
       THEN "none" ELSE "InvalidStateError"

\* this.cache.delete(id)
CacheDelete_kept == docCache
CacheDelete == Nothing

\* upsert: result = await this.edvClient.update({doc}), the catch, and
\* this.cache.delete(content.id)
UpsertWrite(w) ==
  LET d == wr[w].doc
      e == UpdateError(d)
  IN
  /\ wr[w].pc = "write"
  /\ UNCHANGED ops
  /\ UNCHANGED <<cacheVars, refreshVars, getVars, agentVars,
                 keyVars, queueVars, recordVars>>
  /\ IF e = "none"
     THEN /\ docs' = [docs EXCEPT ![d.id] =
               [st |-> "live", sequence |-> SentSequence(d),
                cseq |-> d.cseq, by |-> w]]
          /\ docCache' = CacheDelete
          /\ wr' = [wr EXCEPT ![w] = [@ EXCEPT !.pc = "done", !.doc = NoLocal]]
     ELSE IF e = "DuplicateError" /\ wr[w].isNew
     THEN /\ wr' = [wr EXCEPT ![w] = [@ EXCEPT !.pc = "reget", !.hit = TRUE]]
          /\ UNCHANGED <<docs, docCache>>
     ELSE IF e # "InvalidStateError"
     THEN /\ wr' = [wr EXCEPT ![w] = [@ EXCEPT !.pc = "failed", !.err = e,
                                            !.doc = NoLocal]]
          /\ UNCHANGED <<docs, docCache>>
     ELSE /\ wr' = [wr EXCEPT ![w] = [@ EXCEPT !.pc = "read", !.hit = TRUE]]
          /\ UNCHANGED <<docs, docCache>>

\* upsert, after a DuplicateError: await this.get(...); continue
UpsertReget(w) ==
  /\ wr[w].pc = "reget"
  /\ wr' = [wr EXCEPT ![w] =
       IF Found # {}
       THEN [@ EXCEPT !.pc = "read"]
       ELSE [@ EXCEPT !.pc = "failed", !.err = "NotFoundError",
                      !.doc = NoLocal]]
  /\ UNCHANGED <<docs, docCache, ops>>
  /\ UNCHANGED <<cacheVars, refreshVars, getVars, agentVars,
                 keyVars, queueVars, recordVars>>

\* _delete with a docId: doc = await this.edvClient.get({id: docId}) and
\* id = doc.content.id; the EDV keeps a deleted document as a tombstone
\* without content
DeleteGet(w) ==
  LET i == wr[w].op.docId IN
  /\ wr[w].pc = "fetch"
  /\ wr' = [wr EXCEPT ![w] =
       IF docs[i].st = "none"
       THEN [@ EXCEPT !.pc = "done", !.doc = NoLocal, !.deleted = FALSE]
       ELSE [@ EXCEPT !.pc = "remove", !.hasId = docs[i].st = "live",
                      !.doc = [id |-> i, sequence |-> docs[i].sequence,
                               cseq |-> NoSeq, by |-> docs[i].by]]]
  /\ UNCHANGED <<docs, docCache, ops>>
  /\ UNCHANGED <<cacheVars, refreshVars, getVars, agentVars,
                 keyVars, queueVars, recordVars>>

\* _delete: the document is looked up by its content id
DeleteFind(w) ==
  /\ wr[w].pc = "find"
  /\ IF Found = {}
     THEN /\ wr' = [wr EXCEPT ![w] = [@ EXCEPT !.pc = "done", !.doc = NoLocal,
                                            !.deleted = FALSE]]
          /\ docCache' = CacheDelete
     ELSE /\ wr' = [wr EXCEPT ![w] = [@ EXCEPT
               !.pc = "remove",
               !.doc = [id |-> TheDoc, sequence |-> docs[TheDoc].sequence,
                        cseq |-> NoSeq, by |-> docs[TheDoc].by]]]
          /\ docCache' = docCache
  /\ UNCHANGED <<docs, ops>>
  /\ UNCHANGED <<cacheVars, refreshVars, getVars, agentVars,
                 keyVars, queueVars, recordVars>>

\* _delete: await this.edvClient.delete({doc}), and delete's loop
DeleteRemove(w) ==
  LET d == wr[w].doc IN
  /\ wr[w].pc = "remove"
  /\ docCache' = IF wr[w].hasId THEN CacheDelete ELSE docCache
  /\ UNCHANGED ops
  /\ UNCHANGED <<cacheVars, refreshVars, getVars, agentVars,
                 keyVars, queueVars, recordVars>>
  /\ IF UpdateError(d) = "none"
     THEN /\ docs' = [docs EXCEPT ![d.id] =
               [st |-> "deleted", sequence |-> SentSequence(d),
                cseq |-> NoSeq, by |-> w]]
          /\ wr' = [wr EXCEPT ![w] = [@ EXCEPT !.pc = "done", !.doc = NoLocal,
                                            !.deleted = TRUE]]
     ELSE /\ docs' = docs
          /\ wr' = [wr EXCEPT ![w] = [@ EXCEPT
               !.pc = IF wr[w].op.kind = "deleteDoc" THEN "fetch" ELSE "find",
               !.hasId = wr[w].op.kind # "deleteDoc",
               !.hit = TRUE]]

\* ------------------------------------------------------------------------
\* DocumentStore.get with the cache (http.js, lru-memoize)

NumGets == 2
Getters == 1..NumGets

\* the number of writes the EDV has accepted
RECURSIVE Writes(_)
Writes(S) ==
  IF S = {} THEN 0
  ELSE LET i == CHOOSE x \in S : TRUE IN
       (IF docs[i].st = "none" THEN 0 ELSE docs[i].sequence + 1)
         + Writes(S \ {i})
Version == Writes(Ids)

\* the document of the content id as the EDV holds it
Absent == [id |-> 0, sequence |-> NoSeq]
Current ==
  IF Found = {} THEN Absent
  ELSE [id |-> TheDoc, sequence |-> docs[TheDoc].sequence]

NoGet == [pc |-> "idle", p |-> 0, floor |-> 0, base |-> Absent]
NoFind == [st |-> "unused", doc |-> Absent, ver |-> 0]

\* get({id}) is called: memoize returns the promise of the cache or calls
\* _getUncachedDoc and stores its promise
GetCall(g) ==
  /\ gt[g].pc = "idle"
  /\ \A h \in Getters : (h < g) => gt[h].pc # "idle"
  /\ IF docCache # Nothing
     THEN /\ gt' = [gt EXCEPT ![g] = [pc |-> "wait", p |-> docCache,
                                      floor |-> Version, base |-> Current]]
          /\ UNCHANGED <<fnd, docCache>>
     ELSE /\ gt' = [gt EXCEPT ![g] = [pc |-> "wait", p |-> g,
                                      floor |-> Version, base |-> Current]]
          /\ fnd' = [fnd EXCEPT ![g] = [NoFind EXCEPT !.st = "pending"]]
          /\ docCache' = g
  /\ UNCHANGED <<docs, wr, ops>>
  /\ UNCHANGED <<cacheVars, refreshVars, agentVars, keyVars,
                 queueVars, recordVars>>

\* the EDV answers the find of promise p
FindServed(p) ==
  /\ fnd[p].st = "pending"
  /\ fnd' = [fnd EXCEPT ![p] = [st |-> "served", doc |-> Current,
                                ver |-> Version]]
  /\ UNCHANGED <<storeVars, gt>>
  /\ UNCHANGED <<cacheVars, refreshVars, agentVars, keyVars,
                 queueVars, recordVars>>

\* the answer arrives and get continues for call g; the call that stored a
\* promise that rejects removes the entry of the key
GetSettled(g) ==
  LET p == gt[g].p IN
  /\ gt[g].pc = "wait"
  /\ fnd[p].st = "served"
  /\ IF fnd[p].doc = Absent
     THEN /\ gt' = [gt EXCEPT ![g] = [@ EXCEPT !.pc = "failed"]]
          /\ \E del \in BOOLEAN :
               /\ del => p = g
               /\ (p = g /\ docCache = p) => del
               /\ docCache' = IF del THEN Nothing ELSE docCache
     ELSE /\ gt' = [gt EXCEPT ![g] = [@ EXCEPT !.pc = "done"]]
          /\ UNCHANGED docCache
  /\ UNCHANGED <<docs, wr, ops, fnd>>
  /\ UNCHANGED <<cacheVars, refreshVars, agentVars, keyVars,
                 queueVars, recordVars>>

\* ------------------------------------------------------------------------
\* refreshZcaps (refresh.js)

\* Bounds: the configuration holds the `refresh` zcap and NumZcaps others
NumZcaps == 2

\* Program constants, in ticks of two and a half minutes
ONE_DAY == FIVE_MINUTES * 288
THIRTY_DAYS == ONE_DAY * 30
SIX_MONTHS == THIRTY_DAYS * 6
DEFAULT_MAX_REFRESH_AFTER == SIX_MONTHS
DEFAULT_POLICY_ERROR_REFRESH_AFTER == ONE_DAY
DEFAULT_MAX_TTL_BEFORE_REFRESH == THIRTY_DAYS
CLOCK_SKEW_DELTA == FIVE_MINUTES

\* PQueue: maximum number of refreshes to attempt at once
concurrency == 4

\* Date.now() counts from 1970: a run of the program is fifty years later
Epoch == ONE_DAY * 365 * 50

\* the reference ids of config.zcaps; RefreshKey is `refresh`
Keys == 0..NumZcaps
RefreshKey == 0

\* a capability: its expiry, its issue (0 the configured one, 1 the one the
\* refresh endpoint returned) and whether it matches schemas.delegatedZcap
NoZcap == [expires |-> 0, issue |-> -1, valid |-> FALSE]
ExpiryOffsets == {0 - FIVE_MINUTES, 10 * ONE_DAY, 60 * ONE_DAY}
NewExpiryOffsets == {ONE_DAY, 90 * ONE_DAY}
Original(e) == [expires |-> e, issue |-> 0, valid |-> TRUE]

NoError == [name |-> "none", data |-> "none"]
ValidationError == [name |-> "ValidationError", data |-> "none"]
\* an error thrown by zcapClient: its name and the name of its `data`
PolicyErrors ==
  {[name |-> n, data |-> "none"] :
     n \in {"NotFoundError", "NotAllowedError", "TimeoutError", "HTTPError"}}
  \cup {[name |-> "HTTPError", data |-> n] :
     n \in {"NotFoundError", "NotAllowedError", "OperationError"}}
WriteErrors ==
  {[name |-> "HTTPError", data |-> "NotAllowedError"],
   [name |-> "TimeoutError", data |-> "none"]}

\* the policy document: `refresh` is false or an object whose
\* constraints.maxTtlBeforeRefresh is a number or is missing
MaxTtls == {0, THIRTY_DAYS, ONE_DAY * 365}
NoPolicy == [refresh |-> "none", isNumber |-> FALSE, maxTtlBeforeRefresh |-> 0]
Policies ==
  {[refresh |-> r, isNumber |-> FALSE, maxTtlBeforeRefresh |-> 0] :
     r \in {"false", "object"}}
  \cup {[refresh |-> "object", isNumber |-> TRUE, maxTtlBeforeRefresh |-> t] :
     t \in MaxTtls}
PolicyResponses ==
  {[error |-> NoError, policy |-> p] : p \in Policies}
  \cup {[error |-> e, policy |-> NoPolicy] : e \in PolicyErrors}

\* what zcapClient.write settles with: a zcap, valid or not, or an error
WriteResponses ==
  {[error |-> NoError,
    zcap |-> [expires |-> dateNow + o, issue |-> 1, valid |-> TRUE]] :
     o \in NewExpiryOffsets}
  \cup {[error |-> NoError,
         zcap |-> [expires |-> dateNow + 90 * ONE_DAY, issue |-> 1,
                   valid |-> FALSE]]}
  \cup {[error |-> e, zcap |-> NoZcap] : e \in WriteErrors}

NoResponse == [error |-> NoError, zcap |-> NoZcap]
NoResult == [capability |-> NoZcap, refreshed |-> FALSE, error |-> NoError,
             referenceId |-> -1]
NoOutcome ==
  [st |-> "none", hasConfig |-> FALSE, zcaps |-> [k \in Keys |-> NoZcap],
   enabled |-> FALSE, after |-> 0, hasResults |-> FALSE,
   results |-> [k \in Keys |-> NoResult], error |-> NoError]

\* the reference ids config.zcaps holds
Present == {k \in Keys : config.zcaps[k] # NoZcap}

\* typeof config.zcaps?.refresh?.invocationTarget === 'string'
HasRefreshZcap_always == TRUE
HasRefreshZcap == config.hasZcaps /\ config.zcaps[RefreshKey] # NoZcap

\* refreshZcaps up to the policy read
RefreshZcaps ==
  /\ cycle = "idle"
  /\ IF ~HasRefreshZcap
       THEN /\ cycle' = "returned"
            /\ outcome' = [NoOutcome EXCEPT !.st = "returned"]
            /\ UNCHANGED policyReads
       ELSE /\ cycle' = "policy"
            /\ policyReads' = policyReads + 1
            /\ UNCHANGED outcome
  /\ UNCHANGED <<config, dateNow, policy, zcaps, after, task, results, writes,
                 responses>>
  /\ UNCHANGED <<cacheVars, storeVars, getVars, agentVars, keyVars,
                 queueVars, recordVars, signal>>

\* error = error.data when the error is an HTTPError that carries data
Dereference(error) ==
  IF error.name = "HTTPError" /\ error.data # "none"
    THEN [name |-> error.data, data |-> "none"] ELSE error

IsPermanent_never(error) == FALSE
IsPermanent(error) == error.name \in {"NotFoundError", "NotAllowedError"}

\* signal.throwIfAborted(), or the rejection of an aborted task of the queue
AbortError == [name |-> "AbortError", data |-> "none"]
Thrown == [NoOutcome EXCEPT !.st = "thrown", !.error = AbortError]

\* the policy read settles; on success the tasks of all zcaps are queued
PolicyRead(res) ==
  /\ cycle = "policy"
  /\ IF res.error # NoError
       THEN /\ cycle' = "returned"
            /\ outcome' =
                 IF IsPermanent(Dereference(res.error))
                   THEN [NoOutcome EXCEPT !.st = "returned",
                           !.error = Dereference(res.error)]
                   ELSE [NoOutcome EXCEPT !.st = "returned",
                           !.enabled = TRUE,
                           !.after = DEFAULT_POLICY_ERROR_REFRESH_AFTER,
                           !.error = Dereference(res.error)]
            /\ UNCHANGED <<policy, zcaps, after, task>>
       ELSE IF signal # "none"
       THEN /\ cycle' = "thrown"
            /\ outcome' = Thrown
            /\ policy' = res.policy
            /\ UNCHANGED <<zcaps, after, task>>
       ELSE /\ cycle' = "queue"
            /\ policy' = res.policy
            /\ zcaps' = config.zcaps
            /\ after' = dateNow + DEFAULT_MAX_REFRESH_AFTER
            /\ task' = [k \in Keys |->
                          IF k \in Present THEN "queued" ELSE "none"]
            /\ UNCHANGED outcome
  /\ UNCHANGED <<config, dateNow, results, policyReads, writes, responses>>
  /\ UNCHANGED <<cacheVars, storeVars, getVars, agentVars, keyVars,
                 queueVars, recordVars, signal>>

maxTtlBeforeRefresh_default(p) == DEFAULT_MAX_TTL_BEFORE_REFRESH
maxTtlBeforeRefresh(p) ==
  IF p.refresh = "object" /\ p.isNumber
    THEN p.maxTtlBeforeRefresh ELSE DEFAULT_MAX_TTL_BEFORE_REFRESH

getRefreshTime(p, capability) ==
  capability.expires + CLOCK_SKEW_DELTA - maxTtlBeforeRefresh(p)

NotDue_never(refreshTime) == FALSE
NotDue(refreshTime) == dateNow < refreshTime

\* the queue starts the task of zcap k, in the order the tasks were added
TaskStart(k) ==
  /\ cycle = "queue"
  /\ task[k] = "queued"
  /\ \A j \in Keys : j < k => task[j] # "queued"
  /\ Cardinality({j \in Keys : task[j] = "writing"}) < concurrency
  /\ IF signal # "none"
       THEN /\ task' = [task EXCEPT ![k] = "skipped"]
            /\ UNCHANGED <<results, writes>>
       ELSE IF NotDue(getRefreshTime(policy, config.zcaps[k]))
       THEN /\ results' = [results EXCEPT ![k] =
                 [capability |-> config.zcaps[k], refreshed |-> FALSE,
                  error |-> NoError, referenceId |-> k]]
            /\ task' = [task EXCEPT ![k] = "done"]
            /\ UNCHANGED writes
       ELSE /\ writes' = writes \cup {k}
            /\ task' = [task EXCEPT ![k] = "writing"]
            /\ UNCHANGED results
  /\ UNCHANGED <<config, dateNow, cycle, policy, zcaps, after, outcome,
                 policyReads, responses>>
  /\ UNCHANGED <<cacheVars, storeVars, getVars, agentVars, keyVars,
                 queueVars, recordVars, signal>>

Validate_accept(zcap) == NoError
Validate(zcap) == IF zcap.valid THEN NoError ELSE ValidationError

refreshCapability(capability, res) ==
  LET err == IF res.error # NoError THEN Dereference(res.error)
             ELSE Validate(res.zcap)
      newZcap == IF err = NoError THEN res.zcap ELSE NoZcap
  IN [capability |-> IF newZcap # NoZcap THEN newZcap ELSE capability,
      refreshed |-> newZcap # NoZcap, error |-> err]

Max2(a, b) == IF a > b THEN a ELSE b

Floor_now == dateNow
Floor == dateNow + FIVE_MINUTES

\* pick earliest of `after` and `refreshTime`, but no less than five
\* minutes from now
Earliest_last(a, refreshTime) == Max2(Floor, refreshTime)
Earliest(a, refreshTime) == Max2(Floor, Min2(a, refreshTime))

\* zcaps.set(key, result.capability): `zcaps` is a Map built from the
\* entries of config.zcaps, not config.zcaps itself
MapSet_shared(k, capability) ==
  [zcaps |-> [zcaps EXCEPT ![k] = capability],
   config |-> [config EXCEPT !.zcaps[k] = capability]]
MapSet(k, capability) ==
  [zcaps |-> [zcaps EXCEPT ![k] = capability], config |-> config]

\* the write of zcap k settles and its task runs to its end
WriteSettled(k, res) ==
  /\ cycle = "queue"
  /\ task[k] = "writing"
  /\ LET r == refreshCapability(config.zcaps[k], res)
         refreshTime == getRefreshTime(policy, r.capability)
     IN /\ results' = [results EXCEPT ![k] =
                         [capability |-> r.capability,
                          refreshed |-> r.refreshed, error |-> r.error,
                          referenceId |-> k]]
        /\ zcaps' = IF r.refreshed
                      THEN MapSet(k, r.capability).zcaps ELSE zcaps
        /\ config' = IF r.refreshed
                       THEN MapSet(k, r.capability).config ELSE config
        /\ after' = Earliest(after, refreshTime)
  /\ task' = [task EXCEPT ![k] = "done"]
  /\ responses' = [responses EXCEPT ![k] = res]
  /\ UNCHANGED <<dateNow, cycle, policy, outcome, policyReads,
                 writes>>
  /\ UNCHANGED <<cacheVars, storeVars, getVars, agentVars, keyVars,
                 queueVars, recordVars, signal>>

\* all tasks have settled and the queue is idle
Return ==
  /\ cycle = "queue"
  /\ \A k \in Keys : task[k] \in {"none", "done"}
  /\ signal = "none"
  /\ cycle' = "returned"
  /\ outcome' = [st |-> "returned", hasConfig |-> TRUE, zcaps |-> zcaps,
                 enabled |-> TRUE, after |-> after, hasResults |-> TRUE,
                 results |-> results, error |-> NoError]
  /\ UNCHANGED <<config, dateNow, policy, zcaps, after, task, results,
                 policyReads, writes, responses>>
  /\ UNCHANGED <<cacheVars, storeVars, getVars, agentVars, keyVars,
                 queueVars, recordVars, signal>>

\* a task of the queue can start without waiting for another to settle
Startable ==
  /\ \E k \in Keys : task[k] = "queued"
  /\ Cardinality({j \in Keys : task[j] = "writing"}) < concurrency

\* the abort signal fires while the call waits for the policy or for writes
Abort ==
  /\ signal = "none"
  /\ \/ cycle = "policy"
     \/ cycle = "queue" /\ ~Startable /\ \E k \in Keys : task[k] = "writing"
  /\ signal' = cycle
  /\ UNCHANGED <<config, dateNow, cycle, policy, zcaps, after, task, results,
                 outcome, policyReads, writes, responses>>
  /\ UNCHANGED <<cacheVars, storeVars, getVars, agentVars, keyVars,
                 queueVars, recordVars>>

\* the call rejects: an aborted task rejects the Promise.all at once or, when
\* the queue lets running tasks end, throwIfAborted throws once it is idle
Throw ==
  /\ cycle = "queue"
  /\ signal # "none"
  /\ cycle' = "thrown"
  /\ outcome' = Thrown
  /\ UNCHANGED <<config, dateNow, policy, zcaps, after, task, results,
                 policyReads, writes, responses, signal>>
  /\ UNCHANGED <<cacheVars, storeVars, getVars, agentVars, keyVars,
                 queueVars, recordVars>>

\* the configurations: no zcaps, zcaps without `refresh`, or all zcaps
RefreshConfigs ==
  {[hasZcaps |-> FALSE, zcaps |-> [k \in Keys |-> NoZcap]]}
  \cup {[hasZcaps |-> TRUE, zcaps |-> z] :
          z \in {f \in [Keys -> {NoZcap} \cup
                          {Original(Epoch + o) : o \in ExpiryOffsets}] :
                   \/ \A k \in Keys : f[k] # NoZcap
                   \/ \A k \in Keys : f[k] = NoZcap <=> k = RefreshKey}}

\* ------------------------------------------------------------------------
\* initializeServiceAgent over serviceAgents.get / generate / insert:
\* processes, each with its own SERVICE_AGENT_CACHE, that share the
\* collection of the database
NumProcs == 2
MaxInits == 3

Procs == 1..NumProcs
\* no more service agents are generated than calls are made
AgentIds == 1..MaxInits
NoAgent == 0

NoInit == [pc |-> "idle", serviceAgent |-> NoAgent, result |-> NoAgent,
           err |-> "none", lost |-> FALSE, aborted |-> FALSE,
           caught |-> "none"]

\* initializeServiceAgent({serviceType}) is called in process p
InitializeServiceAgent(p) ==
  /\ init[p].pc \in {"idle", "returned", "thrown"}
  /\ inits < MaxInits
  /\ inits' = inits + 1
  /\ init' = [init EXCEPT ![p] = [NoInit EXCEPT !.pc = "get"]]
  /\ UNCHANGED <<collection, SERVICE_AGENT_CACHE, nextAgent, returned>>
  /\ UNCHANGED <<cacheVars, storeVars, refreshVars, getVars,
                 keyVars, queueVars, recordVars>>

\* collection.findOne({'serviceAgent.serviceType': serviceType})
FindOne == IF collection = {} THEN NoAgent ELSE CHOOSE a \in collection : TRUE

\* what the database answers a query with
DbResponses == {"ok", "Error", "InvalidStateError"}

\* serviceAgents.get({serviceType}): the record of the cache, or the record
\* found, which memoize keeps; a rejected promise is not kept
ServiceAgentsGet(p, res) ==
  /\ init[p].pc = "get"
  /\ IF SERVICE_AGENT_CACHE[p] # NoAgent
     THEN /\ init' = [init EXCEPT ![p] = [@ EXCEPT
               !.pc = "returned", !.result = SERVICE_AGENT_CACHE[p],
               !.caught = "none"]]
          /\ returned' = returned \cup {SERVICE_AGENT_CACHE[p]}
          /\ UNCHANGED SERVICE_AGENT_CACHE
     ELSE IF res # "ok"
     THEN /\ init' = [init EXCEPT ![p] = [@ EXCEPT
               !.pc = "thrown", !.err = res, !.caught = res]]
          /\ UNCHANGED <<SERVICE_AGENT_CACHE, returned>>
     ELSE IF FindOne = NoAgent
     THEN /\ init' = [init EXCEPT ![p] = [@ EXCEPT
               !.pc = "generate", !.caught = "NotFoundError"]]
          /\ UNCHANGED <<SERVICE_AGENT_CACHE, returned>>
     ELSE /\ init' = [init EXCEPT ![p] = [@ EXCEPT
               !.pc = "returned", !.result = FindOne, !.caught = "none"]]
          /\ SERVICE_AGENT_CACHE' =
               [SERVICE_AGENT_CACHE EXCEPT ![p] = FindOne]
          /\ returned' = returned \cup {FindOne}
  /\ UNCHANGED <<collection, nextAgent, inits>>
  /\ UNCHANGED <<cacheVars, storeVars, refreshVars, getVars,
                 keyVars, queueVars, recordVars>>

\* what the key management system answers the creation of the keystore
\* and the keys with
KmsResponses == {"ok", "InvalidStateError", "Error", "DuplicateError"}

\* generate's catch: if(e.name !== 'InvalidStateError') throw e
IsInvalidState_any(name) == TRUE
IsInvalidState(name) == name = "InvalidStateError"

\* serviceAgents.generate({serviceType}) and its catch
Generate(p, res) ==
  /\ init[p].pc = "generate"
  /\ IF res = "ok"
     THEN /\ nextAgent \in AgentIds
          /\ nextAgent' = nextAgent + 1
          /\ init' = [init EXCEPT ![p] = [@ EXCEPT
               !.pc = "insert", !.serviceAgent = nextAgent,
               !.caught = "none"]]
     ELSE /\ nextAgent' = nextAgent
          /\ init' = [init EXCEPT ![p] = [@ EXCEPT
               !.pc = IF IsInvalidState(res) /\ ~init[p].aborted
                      THEN "get" ELSE "thrown",
               !.err = IF ~IsInvalidState(res) THEN res
                       ELSE IF init[p].aborted THEN "TimeoutError"
                       ELSE "none",
               !.caught = res]]
  /\ UNCHANGED <<collection, SERVICE_AGENT_CACHE, inits, returned>>
  /\ UNCHANGED <<cacheVars, storeVars, refreshVars, getVars,
                 keyVars, queueVars, recordVars>>

\* the unique index on serviceAgent.serviceType refuses a second record
IsDuplicate_never == FALSE
IsDuplicate == collection # {}

\* serviceAgents.insert({serviceAgent}) and its catch
Insert(p, res) ==
  /\ init[p].pc = "insert"
  /\ IF res # "ok"
     THEN /\ init' = [init EXCEPT ![p] = [@ EXCEPT
               !.pc = "thrown", !.err = res, !.caught = res]]
          /\ UNCHANGED <<collection, returned>>
     ELSE IF IsDuplicate
     THEN /\ init' = [init EXCEPT ![p] = [@ EXCEPT
               !.pc = "get", !.lost = TRUE, !.caught = "DuplicateError"]]
          /\ UNCHANGED <<collection, returned>>
     ELSE /\ collection' = collection \cup {init[p].serviceAgent}
          /\ init' = [init EXCEPT ![p] = [@ EXCEPT
               !.pc = "returned", !.result = init[p].serviceAgent,
               !.caught = "none"]]
          /\ returned' = returned \cup {init[p].serviceAgent}
  /\ UNCHANGED <<SERVICE_AGENT_CACHE, nextAgent, inits>>
  /\ UNCHANGED <<cacheVars, storeVars, refreshVars, getVars,
                 keyVars, queueVars, recordVars>>

\* AbortSignal.timeout(5 * 60 * 1000) fires during the call
SignalTimeout(p) ==
  /\ init[p].pc \in {"get", "generate", "insert"}
  /\ ~init[p].aborted
  /\ init' = [init EXCEPT ![p] = [@ EXCEPT !.aborted = TRUE]]
  /\ UNCHANGED <<collection, SERVICE_AGENT_CACHE, nextAgent, inits, returned>>
  /\ UNCHANGED <<cacheVars, storeVars, refreshVars, getVars,
                 keyVars, queueVars, recordVars>>

\* the entry of SERVICE_AGENT_CACHE reaches its maxAge
ServiceAgentExpire(p) ==
  /\ SERVICE_AGENT_CACHE[p] # NoAgent
  /\ SERVICE_AGENT_CACHE' = [SERVICE_AGENT_CACHE EXCEPT ![p] = NoAgent]
  /\ UNCHANGED <<collection, init, nextAgent, inits, returned>>
  /\ UNCHANGED <<cacheVars, storeVars, refreshVars, getVars,
                 keyVars, queueVars, recordVars>>

InitAgentVars ==
  /\ collection = {}
  /\ SERVICE_AGENT_CACHE = [p \in Procs |-> NoAgent]
  /\ init = [p \in Procs |-> NoInit]
  /\ nextAgent = 1
  /\ inits = 0
  /\ returned = {}

NextAgents ==
  \/ \E p \in Procs : InitializeServiceAgent(p)
  \/ \E p \in Procs : \E res \in DbResponses : ServiceAgentsGet(p, res)
  \/ \E p \in Procs : \E res \in KmsResponses : Generate(p, res)
  \/ \E p \in Procs : \E res \in DbResponses : Insert(p, res)
  \/ \E p \in Procs : SignalTimeout(p)
  \/ \E p \in Procs : ServiceAgentExpire(p)

\* ------------------------------------------------------------------------
\* getEphemeralAgent: the keys of EPHEMERAL_AGENT_CACHE over the versions
\* of configs and service agents
MaxRecords == 2
MaxUpdates == 1

\* strings are sequences of characters
Quote == "\""
Backslash == "\\"
ConfigIds == {<<"c">>, <<"c", Quote>>}
ServiceAgentIds == {<<"c">>, <<Backslash, "c">>}
\* the sequence a config has when the run starts
StartSequences == {0, 9}

\* JSON.stringify of a string: in quotes, with `"` and `\` escaped
RECURSIVE Escape(_)
Escape(str) ==
  IF str = <<>> THEN <<>>
  ELSE (IF Head(str) \in {Quote, Backslash}
        THEN <<Backslash, Head(str)>> ELSE <<Head(str)>>) \o Escape(Tail(str))
StringifyString(str) == <<Quote>> \o Escape(str) \o <<Quote>>

\* JSON.stringify of a non-negative integer: its decimal digits
Digits == <<"0", "1", "2", "3", "4", "5", "6", "7", "8", "9">>
RECURSIVE StringifyNumber(_)
StringifyNumber(n) ==
  IF n < 10 THEN <<Digits[n + 1]>>
  ELSE StringifyNumber(n \div 10) \o <<Digits[(n % 10) + 1]>>

\* [config.id, config.sequence, serviceAgent.id, serviceAgent.sequence]
KeyParts_ids(cfg, agent) == <<cfg.id, 0, agent.id, 0>>
KeyParts(cfg, agent) == <<cfg.id, cfg.sequence, agent.id, agent.sequence>>

\* JSON.stringify of the array
Stringify(parts) ==
  <<"[">> \o StringifyString(parts[1]) \o <<",">>
    \o StringifyNumber(parts[2]) \o <<",">>
    \o StringifyString(parts[3]) \o <<",">>
    \o StringifyNumber(parts[4]) \o <<"]">>

\* the versions a caller can hold: the stored one or an older one
ConfigVersions ==
  {cfg \in [id : ConfigIds, sequence : 0..(9 + MaxUpdates)] :
     /\ cfg.sequence <= sequences.config[cfg.id]
     /\ cfg.sequence >= sequences.config[cfg.id] - 1}
ServiceAgentVersions ==
  {agent \in [id : ServiceAgentIds, sequence : 0..MaxUpdates] :
     /\ agent.sequence <= sequences.serviceAgent[agent.id]
     /\ agent.sequence >= sequences.serviceAgent[agent.id] - 1}

\* the record of the entry of key k
Cached(k) == {e \in EPHEMERAL_AGENT_CACHE : e.key = k}

\* getEphemeralAgent({config, serviceAgent}): the record of the entry of
\* the key, or a new record delegated from the zcaps of `config` by
\* `serviceAgent`
GetEphemeralAgent(cfg, agent) ==
  LET key == Stringify(KeyParts(cfg, agent)) IN
  /\ IF Cached(key) # {}
     THEN /\ got' = got \cup
               {[config |-> cfg, serviceAgent |-> agent, record |-> e.record] :
                  e \in Cached(key)}
          /\ UNCHANGED <<EPHEMERAL_AGENT_CACHE, records>>
     ELSE /\ Len(records) < MaxRecords
          /\ records' = Append(records,
               [config |-> cfg, serviceAgent |-> agent])
          /\ EPHEMERAL_AGENT_CACHE' = EPHEMERAL_AGENT_CACHE \cup
               {[key |-> key, record |-> Len(records) + 1]}
          /\ got' = got \cup
               {[config |-> cfg, serviceAgent |-> agent,
                 record |-> Len(records) + 1]}
  /\ UNCHANGED <<sequences, updates>>
  /\ UNCHANGED <<cacheVars, storeVars, refreshVars, getVars, agentVars,
                 queueVars, recordVars>>

\* the timer of the record of an entry: the replacement is produced from
\* the `config` and `serviceAgent` of the record and stored under its key
Rotate(e) ==
  /\ Len(records) < MaxRecords
  /\ records' = Append(records, records[e.record])
  /\ EPHEMERAL_AGENT_CACHE' = (EPHEMERAL_AGENT_CACHE \ {e}) \cup
       {[key |-> e.key, record |-> Len(records) + 1]}
  /\ UNCHANGED <<sequences, got, updates>>
  /\ UNCHANGED <<cacheVars, storeVars, refreshVars, getVars, agentVars,
                 queueVars, recordVars>>

\* an entry expires or is evicted
Drop(e) ==
  /\ EPHEMERAL_AGENT_CACHE' = EPHEMERAL_AGENT_CACHE \ {e}
  /\ UNCHANGED <<records, sequences, got, updates>>
  /\ UNCHANGED <<cacheVars, storeVars, refreshVars, getVars, agentVars,
                 queueVars, recordVars>>

\* a config is updated: its sequence is incremented
UpdateConfig(i) ==
  /\ updates < MaxUpdates
  /\ updates' = updates + 1
  /\ sequences' = [sequences EXCEPT !.config[i] = @ + 1]
  /\ UNCHANGED <<EPHEMERAL_AGENT_CACHE, records, got>>
  /\ UNCHANGED <<cacheVars, storeVars, refreshVars, getVars, agentVars,
                 queueVars, recordVars>>

\* serviceAgents.update: the sequence of the service agent is incremented
UpdateServiceAgent(i) ==
  /\ updates < MaxUpdates
  /\ updates' = updates + 1
  /\ sequences' = [sequences EXCEPT !.serviceAgent[i] = @ + 1]
  /\ UNCHANGED <<EPHEMERAL_AGENT_CACHE, records, got>>
  /\ UNCHANGED <<cacheVars, storeVars, refreshVars, getVars, agentVars,
                 queueVars, recordVars>>

InitKeyCache ==
  /\ EPHEMERAL_AGENT_CACHE = {}
  /\ records = <<>>
  /\ got = {}
  /\ updates = 0

InitKeyVars ==
  /\ InitKeyCache
  /\ sequences = [config |-> [i \in ConfigIds |-> 0],
                  serviceAgent |-> [i \in ServiceAgentIds |-> 0]]

NextKeys ==
  \/ \E cfg \in ConfigVersions : \E agent \in ServiceAgentVersions :
       GetEphemeralAgent(cfg, agent)
  \/ \E e \in EPHEMERAL_AGENT_CACHE : Rotate(e)
  \/ \E e \in EPHEMERAL_AGENT_CACHE : Drop(e)
  \/ \E i \in ConfigIds : UpdateConfig(i)
  \/ \E i \in ServiceAgentIds : UpdateServiceAgent(i)

\* ------------------------------------------------------------------------
\* The PQueue of refreshZcaps (refresh.js:100-129): the tasks of all zcaps
\* are added at once; p-queue starts a job when fewer than `concurrency`
\* jobs are pending and fewer than `intervalCap` jobs were started in the
\* current interval of its timer

\* Bound: the largest number of zcaps of a configuration
MaxZcaps == 62

\* PQueue: maximum updates per interval (second)
intervalCap == 60

ZcapCounts == {concurrency + 1, MaxZcaps}

doesIntervalAllowAnother(q) == q.intervalCount < intervalCap

doesConcurrentAllowAnother_always(q) == TRUE
doesConcurrentAllowAnother(q) == q.pending < concurrency

\* the queue, the signal, the task functions in execution and the jobs
\* started in the current interval
QueueState ==
  [queue |-> queue, aborted |-> aborted, running |-> running,
   started |-> started]

\* PQueue._tryToStartAnother: with an empty queue the interval timer is
\* cleared; else the next job is started if interval and concurrency allow
\* it, and the interval timer is set if it is not. A job counts as pending
\* and in its interval, then runs the task function until that settles; a
\* job started after the abort throws before the task function is called
\* and is no longer pending when the call returns
tryToStartAnother(s) ==
  IF s.queue.size = 0
  THEN [s EXCEPT !.queue.intervalId = FALSE]
  ELSE IF doesIntervalAllowAnother(s.queue)
          /\ doesConcurrentAllowAnother(s.queue)
  THEN [s EXCEPT !.queue.size = @ - 1,
                 !.queue.pending = IF s.aborted THEN @ ELSE @ + 1,
                 !.queue.intervalCount = @ + 1,
                 !.queue.intervalId = TRUE,
                 !.running = IF s.aborted THEN @ ELSE @ + 1,
                 !.started = @ + 1]
  ELSE s

\* PQueue._processQueue: start jobs until none can be started
RECURSIVE processQueue(_)
processQueue(s) ==
  LET t == tryToStartAnother(s) IN
  IF t = s THEN s ELSE processQueue(t)

\* PQueue._next, after a job has ended: a job that throws at its start
\* calls _next itself
next_job(s) == IF s.aborted THEN processQueue(s) ELSE tryToStartAnother(s)

SetQueue(s) ==
  /\ queue' = s.queue
  /\ aborted' = s.aborted
  /\ running' = s.running
  /\ started' = s.started

\* queue.add(task, {signal}) of the next zcap: the adds of all zcaps are
\* made in one synchronous run of [...zcaps].map
QueueAdd ==
  /\ adds > 0
  /\ adds' = adds - 1
  /\ SetQueue(tryToStartAnother([QueueState EXCEPT !.queue.size = @ + 1]))
  /\ UNCHANGED <<cacheVars, storeVars, refreshVars, getVars, agentVars,
                 keyVars, recordVars>>

\* the task function of a job settles; the job, if it is still pending,
\* ends with it and _next tries to start another
TaskSettle ==
  /\ adds = 0
  /\ running > 0
  /\ IF queue.pending > 0
     THEN SetQueue(next_job([QueueState EXCEPT
            !.queue.pending = @ - 1, !.running = @ - 1]))
     ELSE SetQueue([QueueState EXCEPT !.running = @ - 1])
  /\ UNCHANGED adds
  /\ UNCHANGED <<cacheVars, storeVars, refreshVars, getVars, agentVars,
                 keyVars, recordVars>>

\* PQueue._onInterval: the timer of the interval fires
OnInterval ==
  /\ adds = 0
  /\ queue.intervalId
  /\ LET cleared == queue.intervalCount = 0 /\ queue.pending = 0 IN
     SetQueue(processQueue([QueueState EXCEPT
       !.queue.intervalId = ~cleared,
       !.queue.intervalCount = 0,
       !.started = 0]))
  /\ UNCHANGED adds
  /\ UNCHANGED <<cacheVars, storeVars, refreshVars, getVars, agentVars,
                 keyVars, recordVars>>

\* the signal aborts while jobs are pending. race: this version of p-queue
\* ends a pending job as soon as its signal aborts, while its task function
\* runs on; else a pending job ends when its task function does
QueueAbort(race) ==
  /\ adds = 0
  /\ ~aborted
  /\ queue.pending > 0
  /\ IF race
     THEN SetQueue(next_job([QueueState EXCEPT
            !.aborted = TRUE, !.queue.pending = 0]))
     ELSE SetQueue([QueueState EXCEPT !.aborted = TRUE])
  /\ UNCHANGED adds
  /\ UNCHANGED <<cacheVars, storeVars, refreshVars, getVars, agentVars,
                 keyVars, recordVars>>

InitQueueVars ==
  /\ queue = [size |-> 0, pending |-> 0, intervalCount |-> 0,
              intervalId |-> FALSE]
  /\ adds = 0
  /\ aborted = FALSE
  /\ running = 0
  /\ started = 0

NextQueue ==
  \/ QueueAdd
  \/ TaskSettle
  \/ OnInterval
  \/ \E race \in BOOLEAN : QueueAbort(race)

\* ------------------------------------------------------------------------
\* serviceAgents.insert and serviceAgents.update on the record of one
\* service agent id (part_000:231-334): the callers pass a `serviceAgent`
\* with a sequence; MongoDB applies insertOne and updateOne one at a time

\* Bound: the number of calls of insert and update
MaxRequests == 3

Sequences == 0..MaxRequests

NoRecord == [exists |-> FALSE, sequence |-> 0, by |-> 0]
NoRequest == [pc |-> "idle", kind |-> "none", sequence |-> 0,
              result |-> "none"]

\* if(serviceAgent.sequence !== 0) throw ... 'ConstraintError'
StartsAtZero_any(serviceAgent) == TRUE
StartsAtZero(serviceAgent) == serviceAgent.sequence = 0

\* insert is called by process p with a service agent of sequence s
InsertCall(p, s) ==
  /\ req[p].pc \in {"idle", "done"}
  /\ requests < MaxRequests
  /\ requests' = requests + 1
  /\ req' = [req EXCEPT ![p] =
       IF StartsAtZero([sequence |-> s])
       THEN [pc |-> "sent", kind |-> "insert", sequence |-> s,
             result |-> "none"]
       ELSE [pc |-> "done", kind |-> "insert", sequence |-> s,
             result |-> "ConstraintError"]]
  /\ UNCHANGED <<agentRecord, applied>>
  /\ UNCHANGED <<cacheVars, storeVars, refreshVars, getVars, agentVars,
                 keyVars, queueVars>>

\* collection.insertOne(record) with the unique index on serviceAgent.id
InsertOne(p) ==
  /\ req[p].pc = "sent"
  /\ req[p].kind = "insert"
  /\ IF agentRecord.exists
     THEN /\ req' = [req EXCEPT ![p] = [@ EXCEPT
               !.pc = "done", !.result = "DuplicateError"]]
          /\ UNCHANGED agentRecord
     ELSE /\ req' = [req EXCEPT ![p] = [@ EXCEPT
               !.pc = "done", !.result = "ok"]]
          /\ agentRecord' = [exists |-> TRUE, sequence |-> req[p].sequence,
                             by |-> p]
  /\ UNCHANGED <<requests, applied>>
  /\ UNCHANGED <<cacheVars, storeVars, refreshVars, getVars, agentVars,
                 keyVars, queueVars>>

\* update is called by process p with a service agent of sequence s
UpdateCall(p, s) ==
  /\ req[p].pc \in {"idle", "done"}
  /\ requests < MaxRequests
  /\ requests' = requests + 1
  /\ req' = [req EXCEPT ![p] =
       [pc |-> "sent", kind |-> "update", sequence |-> s, result |-> "none"]]
  /\ UNCHANGED <<agentRecord, applied>>
  /\ UNCHANGED <<cacheVars, storeVars, refreshVars, getVars, agentVars,
                 keyVars, queueVars>>

\* query = {'serviceAgent.id': serviceAgent.id,
\*          'serviceAgent.sequence': serviceAgent.sequence - 1}
Query_id(serviceAgent) == agentRecord.exists
Query(serviceAgent) ==
  agentRecord.exists /\ agentRecord.sequence = serviceAgent.sequence - 1

\* collection.updateOne(query, {$set: {serviceAgent, ...}}), the test of the
\* number of records changed, and SERVICE_AGENT_CACHE.delete
UpdateOne(p) ==
  /\ req[p].pc = "sent"
  /\ req[p].kind = "update"
  /\ IF Query(req[p])
     THEN /\ agentRecord' = [exists |-> TRUE, sequence |-> req[p].sequence,
                             by |-> p]
          /\ applied' = [applied EXCEPT ![req[p].sequence] = @ + 1]
          /\ req' = [req EXCEPT ![p] = [@ EXCEPT
               !.pc = "done", !.result = "ok"]]
          /\ SERVICE_AGENT_CACHE' =
               [SERVICE_AGENT_CACHE EXCEPT ![p] = NoAgent]
     ELSE /\ req' = [req EXCEPT ![p] = [@ EXCEPT
               !.pc = "done", !.result = "InvalidStateError"]]
          /\ UNCHANGED <<agentRecord, applied, SERVICE_AGENT_CACHE>>
  /\ UNCHANGED requests
  /\ UNCHANGED <<collection, init, nextAgent, inits, returned>>
  /\ UNCHANGED <<cacheVars, storeVars, refreshVars, getVars, keyVars,
                 queueVars>>

InitRecordVars ==
  /\ agentRecord = NoRecord
  /\ req = [p \in Procs |-> NoRequest]
  /\ requests = 0
  /\ applied = [s \in Sequences |-> 0]

NextRecords ==
  \/ \E p \in Procs : \E s \in Sequences : InsertCall(p, s)
  \/ \E p \in Procs : InsertOne(p)
  \/ \E p \in Procs : \E s \in Sequences : UpdateCall(p, s)
  \/ \E p \in Procs : UpdateOne(p)

\* ------------------------------------------------------------------------
InitCacheVars ==
  /\ now = 0
  /\ ttl = FIVE_MINUTES
  /\ cache = Empty
  /\ prom = [p \in Proms |-> NoProm]
  /\ rot = [p \in Proms |-> NoRot]
  /\ call = [c \in Calls |-> NoCall]
  /\ lost = {}

InitStoreVars ==
  /\ docs = [i \in Ids |-> NoDoc]
  /\ docCache = Nothing
  /\ wr = [w \in Writers |-> NoWriter]
  /\ ops = 0
  /\ gt = [g \in Getters |-> NoGet]
  /\ fnd = [g \in Getters |-> NoFind]

InitRefreshVars ==
  /\ dateNow = Epoch
  /\ cycle = "idle"
  /\ policy = NoPolicy
  /\ zcaps = [k \in Keys |-> NoZcap]
  /\ after = 0
  /\ task = [k \in Keys |-> "none"]
  /\ results = [k \in Keys |-> NoResult]
  /\ outcome = NoOutcome
  /\ policyReads = 0
  /\ writes = {}
  /\ responses = [k \in Keys |-> NoResponse]
  /\ signal = "none"

NoRefreshConfig == [hasZcaps |-> FALSE, zcaps |-> [k \in Keys |-> NoZcap]]

InitCache ==
  /\ mode \in Modes
  /\ zcapExpires \in Configs
  /\ mode = "store" => zcapExpires = [n \in Names |-> Never]
  /\ InitCacheVars
  /\ InitStoreVars
  /\ InitAgentVars
  /\ InitQueueVars
  /\ InitRecordVars
  /\ InitKeyVars
  /\ config = NoRefreshConfig
  /\ InitRefreshVars

InitStore ==
  /\ mode = "store"
  /\ zcapExpires = [n \in Names |-> Never]
  /\ InitCacheVars
  /\ InitStoreVars
  /\ InitAgentVars
  /\ InitQueueVars
  /\ InitRecordVars
  /\ InitKeyVars
  /\ config = NoRefreshConfig
  /\ InitRefreshVars

InitRefresh ==
  /\ mode = "store"
  /\ zcapExpires = [n \in Names |-> Never]
  /\ InitCacheVars
  /\ InitStoreVars
  /\ InitAgentVars
  /\ InitQueueVars
  /\ InitRecordVars
  /\ InitKeyVars
  /\ config \in RefreshConfigs
  /\ InitRefreshVars

NextCache ==
  \/ \E c \in Calls : Get(c)
  \/ \E c \in Calls : MemoizeSettled(c)
  \/ \E c \in Calls : RecordSettled(c)
  \/ \E p \in Proms : \E failed \in SUBSET Names : ProducerSettle(p, failed)
  \/ \E r \in Proms : TimerFire(r)
  \/ \E r \in Proms : RotationCheck(r)
  \/ \E r \in Proms : RotationSettled(r)
  \/ Evict
  \/ \E t \in TtlChoices : Reset(t)
  \/ Tick

vars == <<cacheVars, storeVars, refreshVars, getVars, agentVars, keyVars,
          queueVars, recordVars>>

NextStore ==
  \/ \E w \in Writers : \E op \in Ops : Start(w, op)
  \/ \E w \in Writers : UpsertRead(w)
  \/ \E w \in Writers : UpsertWrite(w)
  \/ \E w \in Writers : UpsertReget(w)
  \/ \E w \in Writers : DeleteFind(w)
  \/ \E w \in Writers : DeleteRemove(w)

\* upserts without mutator, deletes by either id, and gets with the cache
DocOps == {Put, Delete, DeleteDoc}
NextDocs ==
  \/ \E w \in Writers : \E op \in DocOps : Start(w, op)
  \/ \E w \in Writers : UpsertRead(w)
  \/ \E w \in Writers : UpsertWrite(w)
  \/ \E w \in Writers : UpsertReget(w)
  \/ \E w \in Writers : DeleteGet(w)
  \/ \E w \in Writers : DeleteFind(w)
  \/ \E w \in Writers : DeleteRemove(w)
  \/ \E g \in Getters : GetCall(g)
  \/ \E p \in Getters : FindServed(p)
  \/ \E g \in Getters : GetSettled(g)

SpecCache == InitCache /\ [][NextCache]_vars

NextRefresh ==
  \/ RefreshZcaps
  \/ \E res \in PolicyResponses : PolicyRead(res)
  \/ \E k \in Keys : TaskStart(k)
  \/ \E k \in Keys : \E res \in WriteResponses : WriteSettled(k, res)
  \/ Return
  \/ Abort
  \/ Throw

SpecStore == InitStore /\ [][NextStore]_vars

SpecRefresh == InitRefresh /\ [][NextRefresh]_vars

SpecAgents == InitStore /\ [][NextAgents]_vars

InitKeys ==
  /\ mode = "store"
  /\ zcapExpires = [n \in Names |-> Never]
  /\ InitCacheVars
  /\ InitStoreVars
  /\ InitAgentVars
  /\ InitQueueVars
  /\ InitRecordVars
  /\ config = NoRefreshConfig
  /\ InitRefreshVars
  /\ InitKeyCache
  /\ \E n \in StartSequences :
       sequences = [config |-> [i \in ConfigIds |-> n],
                    serviceAgent |-> [i \in ServiceAgentIds |-> 0]]

SpecKeys == InitKeys /\ [][NextKeys]_vars

SpecDocs == InitStore /\ [][NextDocs]_vars

\* the next step of the call of writer w
Step(w) ==
  \/ UpsertRead(w)
  \/ UpsertWrite(w)
  \/ UpsertReget(w)
  \/ DeleteFind(w)
  \/ DeleteRemove(w)

\* every call that is running takes its next step at some time: the EDV
\* answers every request
SpecStoreFair == SpecStore /\ \A w \in Writers : WF_vars(Step(w))

\* refreshZcaps adds the tasks of the zcaps of a configuration
InitQueue ==
  /\ mode = "store"
  /\ zcapExpires = [n \in Names |-> Never]
  /\ InitCacheVars
  /\ InitStoreVars
  /\ InitAgentVars
  /\ InitKeyVars
  /\ config = NoRefreshConfig
  /\ InitRefreshVars
  /\ queue = [size |-> 0, pending |-> 0, intervalCount |-> 0,
              intervalId |-> FALSE]
  /\ adds \in ZcapCounts
  /\ InitRecordVars
  /\ aborted = FALSE
  /\ running = 0
  /\ started = 0

SpecQueue == InitQueue /\ [][NextQueue]_vars

SpecRecords == InitStore /\ [][NextRecords]_vars

\* ------------------------------------------------------------------------
\* Properties of the rotating caches (SpecCache)

Done(c) == call[c].pc = "done"
InFlight == {p \in Proms : Pending(p)}
InFlightRot == {r \in Proms : rot[r].pc = "producing" /\ Pending(rot[r].q)}

\* the calls that were made while the first computation p was in flight,
\* and the call that started it
Sharing(p) == {c \in Calls : p \in call[c].saw \/ prom[p].by = c}

\* call c arrived while the first computation p of the key was in flight:
\* c starts no producer and resolves to the record the other callers get
Coalesced(c, p) ==
  /\ \A q \in Proms : prom[q].by # c
  /\ \A d \in Sharing(p) : (Done(c) /\ Done(d)) => call[c].res = call[d].res

C2_SwapStep ==
  /\ \A r \in Proms :
       (rot[r].pc = "producing" /\ rot'[r].pc = "done") =>
         IF /\ prom[rot[r].q].st = "resolved"
            /\ rot[r].current = r
            /\ GetRes(cache) = r
         THEN cache'.p = rot[r].q
         ELSE cache'.p \in {cache.p, GetRes(cache)}
  /\ (cache'.p # cache.p /\ cache'.p # 0 /\ prom'[cache'.p].kind = "rot") =>
       \E r \in Proms :
         /\ rot[r].pc = "producing" /\ rot'[r].pc = "done"
         /\ rot[r].q = cache'.p
         /\ rot[r].current = r
         /\ GetRes(cache) = r

C2_RotationSwap == [][C2_SwapStep]_vars

\* the replacement of r has been swapped in, and the replacement of x is
\* complete while the slot no longer holds the entry of x
C2_Witness ==
  \E r \in Proms :
    /\ rot[r].pc = "done" /\ rot[r].q # 0
    /\ cache.p = rot[r].q
    /\ \E x \in Proms : /\ x # r /\ rot[x].pc = "producing"
                        /\ prom[rot[x].q].st = "resolved"
                        /\ GetRes(cache) # x

C3_PerEntryInv ==
  \A r1, r2 \in InFlightRot :
    /\ rot[r1].current = r1
    /\ rot[r1].current = rot[r2].current => r1 = r2

C3_GetStep ==
  \A c \in Calls :
    call'[c] # call[c] =>
      \A p \in Proms : prom'[p].kind = "rot" => prom[p].kind = "rot"

OfEntry ==
  {p \in InFlight :
     \/ p = cache.p
     \/ \E r \in Proms : rot[r].pc = "producing" /\ rot[r].q = p
                         /\ rot[r].current = cache.p}

C5_Step ==
  /\ \A c \in Calls :
       (Done(c)' /\ ~Done(c)) =>
          /\ prom[call'[c].res].st = "resolved"
          /\ prom[call'[c].res].expires >= now
  /\ \A p \in Proms :
       (Pending(p) /\ ~Pending(p)') =>
          /\ prom'[p].st = "resolved" => prom'[p].expires >= now
          /\ (prom'[p].err # "DelegationError" /\ earliestExpires(p) < now
              /\ mode = "agent") =>
                (prom'[p].st = "rejected" /\ prom'[p].err = "InvalidStateError")
  /\ \A c \in Calls :
       (/\ call[c].pc = "rec" /\ call'[c] # call[c]
        /\ prom[call[c].p].st = "resolved"
        /\ prom[call[c].p].expires < now) =>
          /\ call'[c].pc = "memo"
          /\ GetRes(cache) = call[c].p =>
               /\ cache'.p # call[c].p
               /\ call'[c].owner
          /\ GetRes(cache) \notin {0, call[c].p} =>
               /\ cache'.p = cache.p
               /\ call'[c].p = cache.p

C5_NoExpiredRecord == [][C5_Step]_vars

C5_Witness ==
  \E c \in Calls :
    /\ Done(c) /\ call[c].retried
    /\ \E p \in Proms : prom[p].st = "resolved" /\ prom[p].expires < now
                        /\ prom[p].by # c

\* C6: the `expires` of a record is the minimum `expires` of the zcaps that
\* were delegated into it, and a producer in which the delegation of some
\* zcap failed returns no record
C6_EarliestExpires ==
  \A p \in Proms :
    /\ (prom[p].st = "resolved" /\ mode = "agent") =>
         /\ prom[p].expires = MinOf({prom[p].zcaps[n] : n \in Names})
         /\ \A n \in Names :
              prom[p].zcaps[n] = Min2(zcapExpires[n], prom[p].maxExpires)
    /\ prom[p].err = "DelegationError" => prom[p].st = "rejected"

C6_Witness ==
  \E p \in Proms :
    /\ prom[p].st = "resolved"
    /\ prom[p].expires < prom[p].maxExpires
    /\ \E n \in Names : prom[p].zcaps[n] > prom[p].expires
    /\ \E q \in Proms : prom[q].err = "DelegationError"

\* ------------------------------------------------------------------------
\* Properties of the DocumentStore (SpecStore)

\* writer w takes a step
Steps(w) == wr'[w] # wr[w]

\* C7: every accepted write stores the previous sequence plus 1, and a
\* creation stores sequence 0, both for the sequence of the stored document
\* and for the `sequence` of the content that the create and update calls
\* submit; a write sent with another document sequence is rejected with a
\* conflict, an update submitted with another content sequence is refused
\* with a conflict, and both leave the stored documents unchanged
C7_Step ==
  /\ \A w \in Writers :
       LET op == wr[w].op
           d == wr[w].doc
       IN
       /\ (wr[w].pc = "write" /\ Steps(w)) =>
            IF wr[w].isNew
            THEN docs' # docs =>
                   /\ docs'[d.id].sequence = 0
                   /\ op.kind = "create" => docs'[d.id].cseq = 0
            ELSE IF docs[d.id].sequence = d.sequence
            THEN /\ docs'[d.id].sequence = docs[d.id].sequence + 1
                 /\ op.kind = "update" =>
                      /\ docs'[d.id].cseq = docs[d.id].cseq + 1
                      /\ docs'[d.id].cseq = op.sequence
            ELSE /\ docs' = docs
                 /\ wr'[w].pc = "read"
       /\ (/\ wr[w].pc = "read" /\ Steps(w)
           /\ op.kind = "update" /\ Found # {}
           /\ docs[TheDoc].cseq # op.sequence - 1) =>
            /\ wr'[w].pc = "failed"
            /\ wr'[w].err = "InvalidStateError"
            /\ docs' = docs
  /\ \A i \in Ids :
       docs'[i] # docs[i] =>
         docs'[i].sequence = IF docs[i].st = "none" THEN 0
                             ELSE docs[i].sequence + 1

C8_Step ==
  /\ \A w \in Writers :
       LET d == wr[w].doc IN
       (wr[w].pc = "write" /\ Steps(w) /\ docs' # docs) =>
         IF wr[w].isNew
         THEN Found = {} /\ docs[d.id].st = "none"
         ELSE /\ docs[d.id].st = "live"
              /\ docs[d.id].sequence = d.sequence
              /\ docs[d.id].by = d.by
  /\ \A i \in Ids :
       docs'[i] # docs[i] =>
         /\ docs'[i].sequence > docs[i].sequence
         /\ \A j \in Ids : j # i => docs'[j] = docs[j]
  /\ Cardinality(Found') <= 1

C8_ConditionalWrite == [][C8_Step]_vars

C8_Witness ==
  \E w \in Writers :
    /\ wr[w].pc = "done" /\ wr[w].hit /\ ~wr[w].isNew
    /\ wr[w].op.kind # "delete"
    /\ \E i \in Ids : docs[i].st = "live" /\ docs[i].by = w
                      /\ docs[i].sequence >= 2

\* C9 as stated: an upsert fails only when its mutator raised an error
C9_Original ==
  \A w \in Writers : wr[w].pc = "failed" => wr[w].aborted

\* C10 as stated: when the mutator raises an error the upsert fails with
\* that error and writes nothing, and it takes no step afterwards
C10_Step ==
  \A w \in Writers :
    /\ (wr'[w].aborted /\ ~wr[w].aborted) =>
         /\ wr'[w].pc = "failed"
         /\ wr'[w].err = Mutator(wr[w].op, TheDoc)
         /\ docs' = docs
    /\ wr[w].aborted => ~Steps(w)

C10_Original == [][C10_Step]_vars

\* ------------------------------------------------------------------------
\* Properties of refreshZcaps (SpecRefresh)

\* the call returned from the processing of the zcaps
Processed == outcome.st = "returned" /\ outcome.hasResults
\* the write of zcap k was answered with a zcap that passed validation
Succeeded(k) ==
  /\ k \in writes
  /\ responses[k].error = NoError
  /\ responses[k].zcap # NoZcap
  /\ responses[k].zcap.valid
\* the write of zcap k was answered, with an error or with an invalid zcap
Failed(k) == k \in writes /\ responses[k] # NoResponse /\ ~Succeeded(k)

\* C11: a failed write never makes the call throw: every settled write
\* leaves a result, and a call that processed the zcaps returns one result
\* per zcap of the configuration, `refreshed` exactly for the zcaps whose
\* write and validation succeeded, the error in every failed result, and a
\* map with the new zcap for the succeeded keys and the original otherwise
C11_PartialFailure ==
  /\ \A k \in Keys : Failed(k) =>
        task[k] = "done" /\ results[k] # NoResult
  /\ Processed => \A k \in Keys :
        /\ outcome.results[k] # NoResult <=> k \in Present
        /\ k \in Present =>
             /\ outcome.results[k].referenceId = k
             /\ outcome.results[k].refreshed <=> Succeeded(k)
             /\ Failed(k) => outcome.results[k].error # NoError
             /\ outcome.zcaps[k] =
                  IF Succeeded(k) THEN responses[k].zcap ELSE config.zcaps[k]
             /\ outcome.results[k].capability = outcome.zcaps[k]
        /\ k \notin Present => outcome.zcaps[k] = NoZcap

C11_Witness ==
  /\ Processed
  /\ \E j, k \in Keys : Succeeded(j) /\ Failed(k) /\ outcome.results[k].error
       = [name |-> "NotAllowedError", data |-> "none"]

\* C12: a zcap that fails validation is at no point in the map of zcaps:
\* the key keeps the original zcap, its result is not refreshed and carries
\* the ValidationError, and the other zcaps are refreshed as they would be
Invalid(k) ==
  k \in writes /\ responses[k].error = NoError /\ responses[k].zcap # NoZcap
    /\ ~responses[k].zcap.valid

C12_NeverInstalled ==
  /\ \A k \in Keys : zcaps[k] = NoZcap \/ zcaps[k].valid
  /\ \A k \in Keys : outcome.zcaps[k] = NoZcap \/ outcome.zcaps[k].valid
  /\ \A k \in Keys : Invalid(k) =>
        /\ zcaps[k] = config.zcaps[k]
        /\ results[k] = [capability |-> config.zcaps[k], refreshed |-> FALSE,
                         error |-> ValidationError, referenceId |-> k]
        /\ \A j \in Keys : Succeeded(j) =>
              zcaps[j] = responses[j].zcap /\ results[j].refreshed

C12_Witness ==
  /\ Processed
  /\ \E j, k \in Keys : Invalid(k) /\ Succeeded(j)
       /\ outcome.zcaps[k] = config.zcaps[k]

\* the refresh-due time of a zcap, as the policy read in this cycle sets it
PolicyTtl ==
  IF policy.refresh = "object" /\ policy.isNumber
    THEN policy.maxTtlBeforeRefresh ELSE THIRTY_DAYS
DueTime(capability) == capability.expires + FIVE_MINUTES - PolicyTtl

\* C13: a call that processed the zcaps returns `after` as the later of
\* now + five minutes and the least refresh-due time over all zcaps of the
\* configuration, refreshed (due time of the new expiry) or not (due time
\* of the existing expiry)
C13_Original ==
  Processed =>
    outcome.after =
      Max2(dateNow + FIVE_MINUTES,
           MinOf({DueTime(outcome.zcaps[k]) : k \in Present}))

\* C14: a call that processed the zcaps and returns refresh enabled returns
\* an `after` of at least now + five minutes, whatever the policy's
\* maxTtlBeforeRefresh, the expiries and the fates of the zcaps
C14_SafetyFloor ==
  Processed /\ outcome.enabled => outcome.after >= dateNow + FIVE_MINUTES

C14_Witness ==
  /\ Processed
  /\ outcome.enabled
  /\ outcome.after = dateNow + FIVE_MINUTES
  /\ \E i, j, k \in Keys :
       /\ Succeeded(i) /\ DueTime(outcome.zcaps[i]) < dateNow
       /\ Failed(j)
       /\ k \in Present /\ k \notin writes

\* no zcap of the configuration has reached its refresh-due time
NoneDue == \A k \in Present : dateNow < DueTime(config.zcaps[k])

Disabled == [NoOutcome EXCEPT !.st = "returned"]

\* C16: a configuration without zcaps, or with zcaps but no `refresh` entry,
\* makes the call return exactly {refresh: {enabled: false, after: 0}},
\* without config, results or error, and without a read of the policy or a
\* refresh write
C16_NoRefreshZcap ==
  ~config.hasZcaps \/ config.zcaps[RefreshKey] = NoZcap =>
    /\ policyReads = 0
    /\ writes = {}
    /\ cycle \in {"idle", "returned"}
    /\ cycle = "returned" => outcome = Disabled

C16_Witness ==
  /\ cycle = "returned"
  /\ config.hasZcaps
  /\ config.zcaps[RefreshKey] = NoZcap
  /\ Present # {}

\* the error the policy read failed with, once dereferenced, is permanent
Permanent(res) ==
  \/ res.error.name \in {"NotFoundError", "NotAllowedError"}
  \/ /\ res.error.name = "HTTPError"
     /\ res.error.data \in {"NotFoundError", "NotAllowedError"}
Carried(res) ==
  IF res.error.name = "HTTPError" /\ res.error.data # "none"
    THEN [name |-> res.error.data, data |-> "none"] ELSE res.error

\* C17: a policy read that fails with NotFoundError or NotAllowedError,
\* thrown directly or carried as the data of an HTTP error, makes the call
\* return refresh disabled with after 0 and that error, no config, and no
\* refresh write is made for any zcap
C17_Step ==
  \A res \in PolicyResponses :
    PolicyRead(res) /\ res.error # NoError /\ Permanent(res) =>
      /\ cycle' = "returned"
      /\ outcome' = [Disabled EXCEPT !.error = Carried(res)]
      /\ writes' = {}

C17_PermanentPolicyError ==
  /\ [](outcome.st = "returned" /\ ~outcome.hasResults => writes = {})
  /\ [][C17_Step]_vars

C17_Witness ==
  /\ outcome.st = "returned"
  /\ policyReads = 1
  /\ ~outcome.enabled
  /\ outcome.after = 0
  /\ outcome.error = [name |-> "NotAllowedError", data |-> "none"]

\* C18: a policy read that fails with any other error makes the call return
\* refresh enabled with the error and an `after` one day after now: on the
\* scale of the `after` of a processed cycle it is later than now
C18_Step ==
  \A res \in PolicyResponses :
    PolicyRead(res) /\ res.error # NoError /\ ~Permanent(res) =>
      /\ outcome'.enabled
      /\ outcome'.error = Carried(res)
      /\ outcome'.after > dateNow

C18_Original == [][C18_Step]_vars

\* C19: a policy whose refresh is false makes the call return refresh
\* disabled with after 0 and no config, and no refresh write is made for
\* any zcap, due or not
C19_Original ==
  policy.refresh = "false" =>
    /\ writes = {}
    /\ outcome.st = "returned" =>
         ~outcome.enabled /\ outcome.after = 0 /\ ~outcome.hasConfig

C21_Original ==
  Processed => (outcome.hasConfig <=> \E k \in Keys : Succeeded(k))

\* C21: a call that processed the zcaps always returns a config, whose zcaps
\* are the new zcap for every replaced key and the zcaps of the input for
\* the others: with no zcap replaced it is the input configuration
C21_ConfigAlways ==
  Processed =>
    /\ outcome.hasConfig
    /\ outcome.zcaps = [k \in Keys |->
         IF Succeeded(k) THEN responses[k].zcap ELSE config.zcaps[k]]

C21_Witness ==
  /\ Processed
  /\ outcome.hasConfig
  /\ outcome.zcaps = config.zcaps
  /\ \E j, k \in Keys : Failed(j) /\ k \in Present /\ k \notin writes

\* C22: when the abort signal fires while the zcaps are processed, the call
\* ends by returning the results of the tasks that had completed
C22_Original ==
  signal = "queue" /\ cycle \notin {"queue"} =>
    /\ outcome.st = "returned"
    /\ outcome.hasResults
    /\ \A k \in Keys : results[k] # NoResult =>
          outcome.results[k] = results[k]

\* ------------------------------------------------------------------------
\* Properties of DocumentStore.delete and DocumentStore.get (SpecDocs)

\* C23: a delete never raises and returns deleted = true exactly when it
\* removed the document: a delete of an absent document, by content id or by
\* document id, also of one a concurrent delete removed first, returns
\* deleted = false
C23_Step ==
  \A w \in Writers :
    (/\ wr[w].op.kind \in {"delete", "deleteDoc"}
     /\ Busy(w)
     /\ wr'[w].pc \in {"done", "failed"}) =>
      /\ wr'[w].pc = "done"
      /\ wr'[w].deleted <=>
           \E i \in Ids : docs[i].st = "live" /\ docs'[i].st = "deleted"

C23_Original == [][C23_Step]_vars

\* the document a get returned, and the writes accepted before it was read
Got(g) == fnd[gt[g].p]

\* C24: a get with the cache that is called after an upsert or delete has
\* returned never returns what was read before the write of that call: it
\* returns what the EDV held when the get was called, or something later
C24_FreshAfterWrite ==
  \A g \in Getters : gt[g].pc \in {"done", "failed"} =>
    Got(g).ver >= gt[g].floor \/ Got(g).doc = gt[g].base

\* a get was in flight with an older document while a write was made, and
\* a get called after the write returned the newer document
C24_Witness ==
  \E g, h \in Getters :
    /\ gt[g].pc \in {"done", "failed"}
    /\ gt[h].pc = "done"
    /\ Got(g).ver < gt[h].floor
    /\ Got(g).doc # Got(h).doc
    /\ gt[h].floor > gt[g].floor

\* ------------------------------------------------------------------------
\* Properties of initializeServiceAgent (SpecAgents)

\* C25: however the processes interleave, at most one service agent record
\* of the type is ever stored; every call that returns, returns the stored
\* service agent, and all calls return the same one; a call whose insert
\* was refused as a duplicate goes back to the start of the loop and
\* returns the stored record of the winner, never its own service agent
C25_SingleAgent ==
  /\ Cardinality(collection) <= 1
  /\ Cardinality(returned) <= 1
  /\ returned \subseteq collection
  /\ \A p \in Procs :
       /\ init[p].pc = "returned" => init[p].result \in collection
       /\ init[p].lost =>
            /\ init[p].pc \in {"get", "returned", "thrown"}
            /\ init[p].err # "DuplicateError"
            /\ init[p].pc = "returned" =>
                 /\ init[p].result # init[p].serviceAgent
                 /\ init[p].result \in collection

C25_Witness ==
  \E p, q \in Procs :
    /\ p # q
    /\ init[p].pc = "returned" /\ init[p].lost
    /\ init[q].pc = "returned" /\ ~init[q].lost
    /\ init[q].result = init[q].serviceAgent
    /\ init[p].result = init[q].result
    /\ init[p].serviceAgent # NoAgent

\* ------------------------------------------------------------------------
\* Further properties of the rotating caches (SpecCache)

\* C26: a get that finds a live entry in the slot starts no producer and
\* returns the record of that entry: the record first produced while its
\* timer has not replaced it, and after a completed rotation the
\* replacement, which is another record than the one that scheduled the
\* rotation and the one the `next` of that record resolves to; the
\* replacement enters the slot when its producer completes while the slot
\* holds the record that scheduled it; a get that finds the slot empty or
\* its entry older than the TTL calls the producer anew
C26_Step ==
  /\ \A c \in Calls :
       /\ (call[c].pc = "idle" /\ call'[c].pc = "memo") =>
            IF cache.p # 0 /\ ~StaleS(cache)
            THEN /\ call'[c].p = cache.p
                 /\ ~call'[c].owner
                 /\ prom' = prom
                 /\ prom[cache.p].kind = "rot" =>
                      \E r \in Proms : /\ r # cache.p
                                       /\ rot[r].q = cache.p
                                       /\ rot[r].current = r
                                       /\ next(r) = RecordNext(cache.p)
            ELSE /\ call'[c].owner
                 /\ prom[call'[c].p].st = "unused"
                 /\ prom'[call'[c].p].st = "pending"
                 /\ prom'[call'[c].p].kind = "get"
       /\ (/\ call[c].pc = "memo" /\ call'[c].pc = "rec"
           /\ ~call[c].owner /\ ~call[c].retried
           /\ call[c].p \notin call[c].saw) => call'[c].p = call[c].p
       /\ (call[c].pc # "done" /\ call'[c].pc = "done") =>
            call'[c].res = call[c].p
  /\ \A r \in Proms :
       (/\ rot[r].pc = "producing" /\ rot'[r].pc = "done"
        /\ prom[rot[r].q].st = "resolved"
        /\ cache.p = r /\ ~StaleS(cache)) => cache'.p = rot[r].q

C26_RotationScenario == [][C26_Step]_vars

\* one get returned the record first produced, a later get its replacement
C26_Witness ==
  \E c, d \in Calls : \E r \in Proms :
    /\ Done(d) /\ call[d].res = r /\ prom[r].kind = "get"
    /\ Done(c) /\ ~call[c].owner /\ call[c].res = rot[r].q
    /\ rot[r].q # 0 /\ rot[r].q # r
    /\ next(r) = RecordNext(call[c].res)

\* C27 as stated: when the replacement producer of a rotation fails, no
\* call fails with its error, the `next` of no record is a rejected
\* promise, and the slot keeps the entry it holds
C27_Step ==
  /\ \A r \in Proms : next(r)'.st # "rejected"
  /\ \A c \in Calls :
       (call[c].pc # "failed" /\ call'[c].pc = "failed"
        /\ call'[c].err # "TypeError") => prom[call[c].p].kind # "rot"
  /\ \A r \in Proms :
       (/\ rot[r].pc = "producing" /\ rot'[r].pc = "done"
        /\ prom[rot[r].q].st = "rejected") => cache' = cache

C27_Original == [][C27_Step]_vars

\* C28 as stated: the timer of a record starts a replacement producer only
\* if a get found the record in the slot after the record was created
C28_Step ==
  \A r \in Proms :
    (rot[r].pc = "fired" /\ rot'[r].pc = "producing") => rot[r].touched

C28_Original == [][C28_Step]_vars

\* C29 as stated: an ephemeral agent that getEphemeralAgent returns does
\* not expire within the next five minutes, and a document store that
\* documentStores.get returns was built from an ephemeral agent that has
\* not expired
C29_Step ==
  \A c \in Calls :
    (call[c].pc # "done" /\ call'[c].pc = "done") =>
      IF mode = "agent"
      THEN prom[call'[c].res].expires >= now + FIVE_MINUTES
      ELSE prom[call'[c].res].agentExpires >= now

C29_Original == [][C29_Step]_vars

\* ------------------------------------------------------------------------
\* Properties of the keys of the ephemeral agent cache (SpecKeys)

\* C30: two calls of getEphemeralAgent receive the same record only if
\* config id, config sequence, service agent id and service agent sequence
\* of the calls are equal, and the record a call receives was delegated
\* from the config and by the service agent of exactly the version the
\* call was made with, also after a sequence was incremented and after
\* rotations; for these values equal keys mean equal versions
C30_KeyedByVersion ==
  /\ \A g, h \in got :
       g.record = h.record =>
         g.config = h.config /\ g.serviceAgent = h.serviceAgent
  /\ \A g \in got :
       /\ records[g.record].config = g.config
       /\ records[g.record].serviceAgent = g.serviceAgent
  /\ \A e, f \in EPHEMERAL_AGENT_CACHE :
       e.key = f.key => e.record = f.record
  /\ \A e \in EPHEMERAL_AGENT_CACHE :
       e.key = Stringify(KeyParts(records[e.record].config,
                                  records[e.record].serviceAgent))

\* calls made before and after an increment of a sequence received
\* different records, the old one still cached
C30_Witness ==
  \E g, h \in got :
    /\ g.config.id = h.config.id /\ g.serviceAgent = h.serviceAgent
    /\ h.config.sequence = g.config.sequence + 1
    /\ h.config.sequence >= 10
    /\ g.record # h.record
    /\ \E e \in EPHEMERAL_AGENT_CACHE : e.record = g.record

\* C31: a new ephemeral agent record has a rotation timer and a non-null
\* `next` exactly if its earliest zcap expiry is not earlier than its
\* creation time plus the cache TTL, the timer being due at that time; a
\* record created without a timer keeps `next` null and no timer fires and
\* no replacement producer is started for it
C31_Step ==
  \A p \in Proms :
    mode = "agent" =>
      /\ (Pending(p) /\ prom'[p].st = "resolved") =>
           /\ (next(p)' # NoNext) <=> ~(prom'[p].expires < now + ttl)
           /\ (rot'[p].pc = "scheduled") <=> ~(prom'[p].expires < now + ttl)
           /\ rot'[p].pc = "scheduled" => rot'[p].at = now + ttl
           /\ rot'[p].pc # "scheduled" => rot'[p] = NoRot
      /\ (Settled(p) /\ rot[p].pc = "none") =>
           /\ rot'[p] = NoRot
           /\ next(p)' = NoNext

C31_RotationWindow == [][C31_Step]_vars

\* a record that expires exactly at its rotation time has a timer, a later
\* record of the same config has none although it has expired since
C31_Witness ==
  \E p, q \in Proms :
    /\ mode = "agent"
    /\ prom[p].st = "resolved" /\ rot[p].pc # "none"
    /\ rot[p].at = prom[p].expires
    /\ prom[q].st = "resolved" /\ rot[q].pc = "none"
    /\ prom[q].expires < now

\* ------------------------------------------------------------------------
\* Properties of the queue of refreshZcaps (SpecQueue)

Due == {k \in Present : ~(dateNow < DueTime(config.zcaps[k]))}
TaskResult(k) == refreshCapability(config.zcaps[k], responses[k])
DueTimes == {DueTime(TaskResult(k).capability) : k \in Due}

\* C33: the `after`, the zcaps and the results of a completed cycle are
\* functions of the configuration, the policy and the answers the refresh
\* endpoint gave for the zcaps, whatever the order in which the tasks
\* completed: `after` is the earliest refresh time of all zcaps that were
\* due, but at least five minutes from now and at most the default; every
\* key holds the result of its own task
C33_OrderIndependent ==
  Processed =>
    /\ outcome.after =
         IF Due = {} THEN dateNow + SIX_MONTHS
         ELSE Max2(dateNow + FIVE_MINUTES,
                   MinOf(DueTimes \cup {dateNow + SIX_MONTHS}))
    /\ \A k \in Keys :
         /\ outcome.zcaps[k] =
              IF k \in Due /\ TaskResult(k).refreshed
              THEN TaskResult(k).capability ELSE config.zcaps[k]
         /\ outcome.results[k] =
              IF k \in Due
              THEN [capability |-> TaskResult(k).capability,
                    refreshed |-> TaskResult(k).refreshed,
                    error |-> TaskResult(k).error, referenceId |-> k]
              ELSE IF k \in Present
              THEN [capability |-> config.zcaps[k], refreshed |-> FALSE,
                    error |-> NoError, referenceId |-> k]
              ELSE NoResult

\* a completed cycle replaced two zcaps whose refresh times differ and lie
\* above the floor, the task started first having the later one
C33_Witness ==
  \E j, k \in Keys :
    /\ j < k
    /\ cycle = "returned" /\ Processed
    /\ {j, k} \subseteq Due
    /\ TaskResult(j).refreshed /\ TaskResult(k).refreshed
    /\ DueTime(TaskResult(j).capability) > DueTime(TaskResult(k).capability)
    /\ DueTime(TaskResult(k).capability) > dateNow + FIVE_MINUTES

\* C34: no step of refreshZcaps changes the configuration it was given,
\* its zcaps or one of them, whether the call returns early, returns
\* results with or without failures, or throws; a zcap the refresh endpoint
\* replaced is set in the Map of the call only and reaches the caller in
\* the returned configuration, where it differs from the zcap of the input
C34_Step ==
  /\ config' = config
  /\ \A k \in Keys :
       (task[k] = "writing" /\ task'[k] = "done" /\ results'[k].refreshed) =>
         /\ zcaps'[k] = results'[k].capability
         /\ config'.zcaps[k] # zcaps'[k]
  /\ (cycle = "queue" /\ cycle' = "returned") =>
       \A k \in Keys :
         outcome'.zcaps[k] # config.zcaps[k] =>
           /\ results[k].refreshed
           /\ outcome'.zcaps[k] = results[k].capability

C34_InputUnchanged == [][C34_Step]_vars

\* a cycle returned a replaced zcap and the failure of another, the input
\* still holding the zcaps it was given
C34_Witness ==
  \E j, k \in Keys :
    /\ Processed
    /\ outcome.results[k].refreshed
    /\ outcome.zcaps[k].issue = 1 /\ config.zcaps[k].issue = 0
    /\ outcome.results[j].error # NoError
    /\ outcome.zcaps[j] = config.zcaps[j]

\* ------------------------------------------------------------------------
\* Further properties of DocumentStore.upsert (SpecStoreFair, SpecStore)

\* the call of writer w is an upsert that has not ended
Upserting(w) == Busy(w) /\ wr[w].op.kind \in {"put", "create", "update"}

\* C35 as stated: every upsert ends, with the stored document or with an
\* error, when every running call keeps taking steps and the calls on the
\* content id are finitely many
C35_Original == \A w \in Writers : Upserting(w) ~> ~Busy(w)

\* C36: an upsert without a mutator that reads a document writes that
\* document, under its storage id, with the content and meta of the call
\* in place of the stored ones; one that reads no document writes a new
\* document under an id that no document has or had; the write that is
\* accepted ends the call and leaves exactly one document of the content
\* id, all other documents being as they were
C36_Step ==
  \A w \in Writers :
    LET d == wr[w].doc
        e == wr'[w].doc
    IN
    (wr[w].op = Put /\ Steps(w)) =>
      /\ wr[w].pc = "read" =>
           /\ wr'[w].pc = "write"
           /\ IF Found = {}
              THEN /\ wr'[w].isNew
                   /\ docs[e.id].st = "none"
                   /\ e.id \notin Generated
                   /\ e.sequence = NoSeq
              ELSE /\ ~wr'[w].isNew
                   /\ e.id = TheDoc
                   /\ e.sequence = docs[TheDoc].sequence
      /\ (wr[w].pc = "write" /\ docs' # docs) =>
           /\ docs'[d.id] =
                [st |-> "live",
                 sequence |-> IF wr[w].isNew THEN 0
                              ELSE docs[d.id].sequence + 1,
                 cseq |-> NoSeq, by |-> w]
           /\ IF wr[w].isNew
              THEN Found = {} /\ docs[d.id].st = "none"
              ELSE Found = {d.id}
           /\ Found' = {d.id}
           /\ \A j \in Ids : j # d.id => docs'[j] = docs[j]
           /\ wr'[w].pc = "done"

C36_Overwrite == [][C36_Step]_vars

\* one upsert created the document, another replaced the content of the
\* document it found; the document has kept its id
C36_Witness ==
  \E v, w \in Writers : \E i \in Ids :
    /\ v # w
    /\ wr[v].op = Put /\ wr[v].pc = "done" /\ wr[v].isNew
    /\ wr[w].op = Put /\ wr[w].pc = "done" /\ ~wr[w].isNew
    /\ Found = {i}
    /\ docs[i].by = w /\ docs[i].sequence = 1

\* C40 as stated: an iteration of upsert prepares the write of a new
\* document, under a generated id, only if its read found no document of
\* the content id; an error the mutator raises for the document that was
\* read, whatever its name, ends the call with that error
C40_Step ==
  \A w \in Writers :
    /\ (wr[w].pc = "read" /\ wr'[w].pc = "write" /\ wr'[w].isNew) =>
         Found = {}
    /\ (/\ wr[w].pc = "read" /\ Steps(w) /\ Found # {}
        /\ UsesMutator(wr[w].op)
        /\ Mutator(wr[w].op, TheDoc) # "none") =>
         /\ wr'[w].pc = "failed"
         /\ wr'[w].err = Mutator(wr[w].op, TheDoc)

C40_Original == [][C40_Step]_vars

\* ------------------------------------------------------------------------
\* Properties of serviceAgents.insert and serviceAgents.update (SpecRecords)

\* C37: a record is inserted only with sequence 0: an insert with another
\* sequence fails with ConstraintError before the database is asked and
\* stores nothing; an update is applied exactly if the stored record has
\* the sequence of the update minus 1, and otherwise fails with
\* InvalidStateError and leaves the record as it is; so of the updates
\* made with one sequence at most one is applied, and of two that are
\* sent while the record has the sequence before it exactly one
C37_Step ==
  /\ \A p \in Procs :
       (req[p].pc # "sent" /\ req'[p].kind = "insert" /\ req'[p] # req[p]
        /\ req'[p].sequence # 0) =>
         /\ req'[p].pc = "done"
         /\ req'[p].result = "ConstraintError"
         /\ agentRecord' = agentRecord
  /\ \A p \in Procs :
       (req[p].pc = "sent" /\ req'[p].pc = "done") =>
         IF req[p].kind = "insert"
         THEN /\ req[p].sequence = 0
              /\ IF agentRecord.exists
                 THEN /\ req'[p].result = "DuplicateError"
                      /\ agentRecord' = agentRecord
                 ELSE /\ req'[p].result = "ok"
                      /\ agentRecord' =
                           [exists |-> TRUE, sequence |-> 0, by |-> p]
         ELSE IF agentRecord.exists
                 /\ agentRecord.sequence = req[p].sequence - 1
         THEN /\ req'[p].result = "ok"
              /\ agentRecord' = [exists |-> TRUE,
                                 sequence |-> req[p].sequence, by |-> p]
         ELSE /\ req'[p].result = "InvalidStateError"
              /\ agentRecord' = agentRecord
  /\ agentRecord' # agentRecord =>
       \E p \in Procs : req[p].pc = "sent" /\ req'[p].result = "ok"

C37_Applied ==
  /\ \A s \in Sequences : applied[s] <= 1
  /\ \A p, q \in Procs :
       (/\ p # q
        /\ req[p].pc = "done" /\ req[p].kind = "update"
        /\ req[q].pc = "done" /\ req[q].kind = "update"
        /\ req[p].sequence = req[q].sequence) =>
         ~(req[p].result = "ok" /\ req[q].result = "ok")

C37_SequenceGuard == []C37_Applied /\ [][C37_Step]_vars

\* two updates were made with the same sequence: one was applied, the
\* other failed with InvalidStateError
C37_Witness ==
  \E p, q \in Procs :
    /\ req[p].pc = "done" /\ req[p].kind = "update"
    /\ req[q].pc = "done" /\ req[q].kind = "update"
    /\ req[p].sequence = req[q].sequence
    /\ req[p].result = "ok" /\ req[q].result = "InvalidStateError"
    /\ agentRecord = [exists |-> TRUE, sequence |-> req[p].sequence,
                      by |-> p]

\* ------------------------------------------------------------------------
\* Further properties of initializeServiceAgent (SpecAgents)

\* a step of the call of process p from one position to another
Moves(p, from, to) == init[p].pc = from /\ init'[p].pc = to

\* the call of process p throws the error it caught
Rethrown(p) == init'[p].err = init'[p].caught

\* C38: the call goes on after an error only when the lookup raised
\* NotFoundError (it generates), generation raised InvalidStateError before
\* the deadline (it looks up again) or the insert raised DuplicateError (it
\* looks up again); every other error of the three steps is thrown by the
\* step that caught it, and an InvalidStateError of generation caught
\* after the deadline is thrown as TimeoutError
C38_Step ==
  \A p \in Procs :
    /\ init[p].pc = "get" /\ init'[p] # init[p] =>
         \/ Moves(p, "get", "returned") /\ init'[p].caught = "none"
         \/ Moves(p, "get", "generate") /\ init'[p].caught = "NotFoundError"
         \/ /\ Moves(p, "get", "thrown") /\ Rethrown(p)
            /\ init'[p].caught \notin {"none", "NotFoundError"}
         \/ init'[p].pc = "get" /\ init'[p].aborted
    /\ init[p].pc = "generate" /\ init'[p] # init[p] =>
         \/ Moves(p, "generate", "insert") /\ init'[p].caught = "none"
         \/ /\ Moves(p, "generate", "get")
            /\ init'[p].caught = "InvalidStateError"
            /\ ~init[p].aborted
         \/ /\ Moves(p, "generate", "thrown")
            /\ init'[p].caught = "InvalidStateError"
            /\ init[p].aborted
            /\ init'[p].err = "TimeoutError"
         \/ /\ Moves(p, "generate", "thrown") /\ Rethrown(p)
            /\ init'[p].caught \notin {"none", "InvalidStateError"}
         \/ init'[p].pc = "generate" /\ init'[p].aborted
    /\ init[p].pc = "insert" /\ init'[p] # init[p] =>
         \/ Moves(p, "insert", "returned") /\ init'[p].caught = "none"
         \/ Moves(p, "insert", "get") /\ init'[p].caught = "DuplicateError"
         \/ /\ Moves(p, "insert", "thrown") /\ Rethrown(p)
            /\ init'[p].caught \notin {"none", "DuplicateError"}
         \/ init'[p].pc = "insert" /\ init'[p].aborted

C38_RetryRules == [][C38_Step]_vars

\* one call threw TimeoutError for an InvalidStateError of generation
\* caught after its deadline, another threw the DuplicateError that
\* generation raised; no service agent was stored
C38_Witness ==
  \E p, q \in Procs :
    /\ init[p].pc = "thrown" /\ init[p].err = "TimeoutError"
    /\ init[p].caught = "InvalidStateError"
    /\ init[q].pc = "thrown" /\ init[q].err = "DuplicateError"
    /\ collection = {}

\* ------------------------------------------------------------------------
\* Further properties of getEphemeralAgent (SpecCache)

\* C39 as stated: a call of getEphemeralAgent ends with a record that has
\* not expired or with the error of the producer whose promise it awaited;
\* the read of the slot that follows a memoize that resolved yields the
\* promise of a record, also when the entry has left the cache since the
\* producer was started
C39_Step ==
  \A c \in Calls :
    mode = "agent" =>
      /\ (/\ call[c].pc = "memo" /\ call'[c] # call[c]
          /\ prom[call[c].p].st = "resolved") =>
           /\ call'[c].pc = "rec"
           /\ call'[c].p # 0
      /\ (call[c].pc # "failed" /\ call'[c].pc = "failed") =>
           /\ prom[call[c].p].st = "rejected"
           /\ call'[c].err = prom[call[c].p].err
      /\ (call[c].pc # "done" /\ call'[c].pc = "done") =>
           ~(prom[call'[c].res].expires < now)

C39_Original == [][C39_Step]_vars

====
